---- MODULE Spec2Model ----
(***************************************************************************)
(* A model of FastAPI-CacheX: the in-memory cache backend, the @cache      *)
(* response wrapper, and the session / one-shot-state managers that        *)
(* persist through the backend.                                            *)
(*                                                                         *)
(* Time.  time.time() is a float; the model counts the clock in ticks of   *)
(* 1/TicksPerSec second, so that sub-second instants exist.  A ttl is a    *)
(* whole number of seconds, an expiry (int(...)) a whole second too.       *)
(*                                                                         *)
(* Optional values.  Python's None is the empty sequence <<>>, a present   *)
(* value v is <<v>>.                                                       *)
(***************************************************************************)
EXTENDS Integers, Sequences, FiniteSets, TLC

VARIABLES
    cache,      \* MemoryBackend.cache: key -> CacheItem [value, expiry]
    now,        \* the clock, in ticks
    last,       \* the last completed call and what it returned
    exact,      \* history: per key, the last set (value, ttl, instant) not yet touched
    cfg,        \* the arguments of @cache(...), fixed at decoration
    func,       \* the decorated handler
    calls,      \* how many times the handler has been invoked
    resp,       \* the last request and the wrapper's answer to it
    hist,       \* history: per request key, the answer to the last request
    scfg,       \* SessionConfig of the SessionManager
    held,       \* per caller, the Session object it holds
    pend,       \* per caller, the call it is suspended in (at an await)
    nextId,     \* how many session ids / state tokens have been generated
    gone,       \* history: per session id, the last invalidation or deletion
    consumed,   \* history: per state token, how many consume_state calls returned it
    made,       \* history: per state token, what create_state was given, and when
    default_backend,  \* proxy._default_backend: the process-wide backend slot
    assigned,         \* history: the argument of the most recent set_backend
    cleanup_task,     \* MemoryBackend._cleanup_task: the handle of the sweeper task
    tasks,      \* the sweeper tasks created so far, in order of creation
    heap,       \* the ETagContent objects the callers made: object |-> content
    server      \* the memcached server's store: key |-> value and end of life

memvars == <<cache, now, last, exact>>
engvars == <<cfg, func, calls, resp, hist>>
sessvars == <<scfg, held, pend, nextId, gone>>
statevars == <<consumed, made>>
proxyvars == <<default_backend, assigned>>
sweepvars == <<cleanup_task, tasks>>
heapvars == <<heap>>
mcvars == <<server>>
vars == <<cache, now, last, exact, cfg, func, calls, resp, hist,
          scfg, held, pend, nextId, gone, consumed, made,
          default_backend, assigned, cleanup_task, tasks, heap, server>>

----------------------------------------------------------------------------
(* Bounds of the model *)

TicksPerSec == 2
MaxTime == 5
MaxTtl == 1

None == <<>>
Some(v) == <<v>>

Values == {"v1", "v2"}
TTLs == {None} \cup {Some(t) : t \in 1..MaxTtl}

(* Strings whose characters the code inspects are sequences of characters. *)
StrA == <<"/", "a">>
StrAx == <<"/", "a", ":", "x">>
StrKey == <<"G", "|", "|", "|", "h", "|", "|", "|", "/", "a", "|", "|", "|">>
Keys == {StrAx, StrKey}
Paths == {StrA, StrKey}
Patterns == {<<"/", "*">>, <<"G", "*", "a", "?", "|", "|">>}

----------------------------------------------------------------------------
(* str.split(sep, 1) for a one-character separator: one or two parts *)

FirstIndex(s, ch) ==
    IF \E i \in 1..Len(s) : s[i] = ch
    THEN CHOOSE i \in 1..Len(s) : s[i] = ch /\ \A j \in 1..(i - 1) : s[j] # ch
    ELSE 0

SplitOnce(s, ch) ==
    LET i == FirstIndex(s, ch)
    IN  IF i = 0 THEN <<s>>
        ELSE <<SubSeq(s, 1, i - 1), SubSeq(s, i + 1, Len(s))>>

(* the fields of a cache key METHOD|||host|||path|||query: str.split("|||") *)
(* the separator the keys had before: a colon *)
Separator_Colon == <<":">>

Separator == <<"|", "|", "|">>

SeparatorAt(s, i) ==
    /\ i + Len(Separator) - 1 <= Len(s)
    /\ SubSeq(s, i, i + Len(Separator) - 1) = Separator

RECURSIVE KeyFields(_)
KeyFields(s) ==
    IF \E i \in 1..Len(s) : SeparatorAt(s, i)
    THEN LET i == CHOOSE i \in 1..Len(s) :
                    SeparatorAt(s, i) /\ \A j \in 1..(i - 1) : ~SeparatorAt(s, j)
         IN  <<SubSeq(s, 1, i - 1)>> \o KeyFields(SubSeq(s, i + Len(Separator), Len(s)))
    ELSE <<s>>

(* str.split("|||", n): at most n splits, leftmost first *)
RECURSIVE SplitMax(_, _)
SplitMax(s, n) ==
    IF n > 0 /\ \E i \in 1..Len(s) : SeparatorAt(s, i)
    THEN LET i == CHOOSE i \in 1..Len(s) :
                    SeparatorAt(s, i) /\ \A j \in 1..(i - 1) : ~SeparatorAt(s, j)
         IN  <<SubSeq(s, 1, i - 1)>>
             \o SplitMax(SubSeq(s, i + Len(Separator), Len(s)), n - 1)
    ELSE <<s>>

(* The default key builder: the four fields joined by the separator, a
   missing Host header written as unknown *)
StrUnknown == <<"u", "n", "k", "n", "o", "w", "n">>

DefaultKeyBuilder(method, host, path, query) ==
    method \o Separator \o (IF host = None THEN StrUnknown ELSE host[1])
    \o Separator \o path \o Separator \o query

(* The parse inverse: three splits; any other arity gives four empty strings *)
EmptyFields == <<<<>>, <<>>, <<>>, <<>>>>

ParseCacheKey(key) ==
    LET parts == SplitMax(key, 3)
    IN  IF Len(parts) = 4 THEN parts ELSE EmptyFields

(* the requests and the strings the two functions are applied to *)
KeyMethods == {<<"G">>, <<"P">>}
KeyHosts ==
    {None, Some(<<"h">>), Some(<<"h", ":", "1">>),
     Some(<<"[", ":", ":", "1", "]", ":", "8">>),
     Some(<<"h", "|">>), Some(<<"a", "|", "|", "|", "b">>)}
KeyPaths == {<<"/", "a">>, <<"/", "a", "|">>, <<"/", "|", "|", "|", "b">>}
KeyQueries == {<<>>, <<"q", "=", "1">>, <<"|", "q">>, <<"x", "|", "|", "|", "y">>}
KeyStrings ==
    {<<>>, <<"k", "e", "y">>, <<"G", "|", "|", "|", "h">>,
     <<"G", "|", "|", "|", "h", "|", "|", "|", "/">>,
     <<"G", ":", "h", ":", "/", ":">>,
     <<"|", "|", "|", "|", "|", "|", "|", "|", "|", "|", "|", "|">>}

(* fnmatch.fnmatch(name, pat): '*' matches any run, '?' one character *)
RECURSIVE FnMatch(_, _)
FnMatch(name, pat) ==
    IF pat = <<>> THEN name = <<>>
    ELSE IF Head(pat) = "*"
         THEN \E n \in 0..Len(name) : FnMatch(SubSeq(name, n + 1, Len(name)), Tail(pat))
    ELSE IF name = <<>> THEN FALSE
    ELSE IF Head(pat) = "?" THEN FnMatch(Tail(name), Tail(pat))
    ELSE Head(pat) = Head(name) /\ FnMatch(Tail(name), Tail(pat))

----------------------------------------------------------------------------
(* MemoryBackend: the operations as functions of the mapping and the clock *)

(* int(time.time() + ttl): the instant t ticks plus ttl seconds, truncated
   to a whole second *)
(* an expiry that forgets the ttl *)
IntExpiry_NoTtl(t, ttl) == t \div TicksPerSec

IntExpiry(t, ttl) == (t + ttl * TicksPerSec) \div TicksPerSec

(* cached_item.expiry is None or cached_item.expiry > time.time() *)
(* the comparison of get the wrong way round *)
Fresh_Inverted(item, t) == item.expiry = None \/ item.expiry[1] * TicksPerSec < t

Fresh(item, t) == item.expiry = None \/ item.expiry[1] * TicksPerSec > t

MemGet(c, key, t) ==
    IF key \in DOMAIN c
    THEN IF Fresh(c[key], t) THEN Some(c[key].value) ELSE None
    ELSE None

(* a set that leaves an existing entry alone *)
MemSet_KeepExisting(c, key, value, ttl, t) ==
    IF key \in DOMAIN c THEN c
    ELSE [k \in DOMAIN c \cup {key} |->
            IF k = key
            THEN [value |-> value,
                  expiry |-> IF ttl # None THEN Some(IntExpiry(t, ttl[1])) ELSE None]
            ELSE c[k]]

MemSet(c, key, value, ttl, t) ==
    LET expiry == IF ttl # None THEN Some(IntExpiry(t, ttl[1])) ELSE None
    IN  [k \in DOMAIN c \cup {key} |->
            IF k = key THEN [value |-> value, expiry |-> expiry] ELSE c[k]]

(* what get leaves in the mapping: it only reads *)
MemGetStore_Evict(c, key, t) ==
    IF key \in DOMAIN c /\ ~Fresh(c[key], t)
    THEN [k \in DOMAIN c \ {key} |-> c[k]]
    ELSE c

MemGetStore(c, key, t) == c

(* a delete that removes nothing *)
MemDelete_Noop(c, key) == c

MemDelete(c, key) == [k \in DOMAIN c \ {key} |-> c[k]]

(* key enumeration: MemoryBackend defines get, set, delete, clear,
   clear_path, clear_pattern and cleanup, and no get_all_keys; a caller that
   asks for the keys gets none *)
MemGetAllKeys(c) == None

(* a clear that removes only the items that carry an expiry *)
MemClear_Expiring(c) == [k \in {j \in DOMAIN c : c[j].expiry = None} |-> c[k]]

MemClear(c) == [k \in {} |-> c[k]]

PathKeysToDelete(c, path, include_params) ==
    {k \in DOMAIN c :
        LET parts == SplitOnce(k, ":")
        IN  parts[1] = path /\ (include_params \/ Len(parts) = 1)}

PatternKeysToDelete(c, pattern) ==
    {k \in DOMAIN c : FnMatch(SplitOnce(k, ":")[1], pattern)}

(* a sweep that spares the items expiring at this very instant *)
ExpiredKeys_Strict(c, t) ==
    {k \in DOMAIN c : c[k].expiry # None /\ c[k].expiry[1] * TicksPerSec < t}

ExpiredKeys(c, t) ==
    {k \in DOMAIN c : c[k].expiry # None /\ c[k].expiry[1] * TicksPerSec <= t}

Remove(c, ks) == [k \in DOMAIN c \ ks |-> c[k]]

----------------------------------------------------------------------------
(* The backend's calls as actions.  Each call holds self.lock from start to
   end, so a call is one step. *)

Forget(ks) == [k \in Keys |-> IF k \in ks THEN None ELSE exact[k]]

Get(key) ==
    /\ last' = [op |-> "get", key |-> key, at |-> now, res |-> MemGet(cache, key, now)]
    /\ cache' = MemGetStore(cache, key, now)
    /\ UNCHANGED <<now, exact>>

Set(key, value, ttl) ==
    /\ cache' = MemSet(cache, key, value, ttl, now)
    /\ exact' = [exact EXCEPT ![key] = Some([value |-> value, ttl |-> ttl, at |-> now])]
    /\ last' = [op |-> "set"]
    /\ UNCHANGED now

Delete(key) ==
    /\ cache' = MemDelete(cache, key)
    /\ exact' = Forget({key})
    /\ last' = [op |-> "delete", key |-> key, had |-> key \in DOMAIN cache]
    /\ UNCHANGED now

Clear ==
    /\ cache' = MemClear(cache)
    /\ exact' = Forget(Keys)
    /\ last' = [op |-> "clear", had |-> Cardinality(DOMAIN cache)]
    /\ UNCHANGED now

ClearPath(path, include_params) ==
    LET ks == PathKeysToDelete(cache, path, include_params)
    IN  /\ cache' = Remove(cache, ks)
        /\ exact' = Forget(ks)
        /\ last' = [op |-> "clear_path", res |-> Cardinality(ks)]
        /\ UNCHANGED now

ClearPattern(pattern) ==
    LET ks == PatternKeysToDelete(cache, pattern)
    IN  /\ cache' = Remove(cache, ks)
        /\ exact' = Forget(ks)
        /\ last' = [op |-> "clear_pattern", res |-> Cardinality(ks)]
        /\ UNCHANGED now

(* cleanup() awaited by a caller: one sweep *)
Cleanup ==
    /\ cache' = Remove(cache, ExpiredKeys(cache, now))
    /\ last' = [op |-> "cleanup", by |-> None, had |-> DOMAIN cache]
    /\ UNCHANGED <<now, exact>>

Tick ==
    /\ now < MaxTime
    /\ now' = now + 1
    /\ UNCHANGED <<cache, last, exact>>

(* The ETagContent objects of the callers.  ETagContent is a dataclass that
   is not frozen: a caller that holds one can assign to its fields.  set puts
   the object it is given into a CacheItem and get returns the object of the
   CacheItem, so what the mapping holds is the object itself, known here by
   its number. *)
MaxObjects == 2

Objects == 1..MaxObjects

(* the content of the object a reference leads to *)
ObjectContent(h, o) == h[o]

(* what the caller of get(key) finds in the object returned *)
Read(c, h, key, t) ==
    LET v == MemGet(c, key, t) IN
    IF v = None THEN None ELSE Some(ObjectContent(h, v[1]))

(* a caller assigns to the content field of an object it made or was given *)
MutateObject(o, content) ==
    /\ heap[o] # content
    /\ heap' = [heap EXCEPT ![o] = content]
    /\ last' = [op |-> "mutate", object |-> o]
    /\ UNCHANGED <<cache, now, exact>>

InitBackend ==
    /\ cache = [k \in {} |-> None]
    /\ now \in 0..(TicksPerSec - 1)
    /\ last = [op |-> "init"]
    /\ exact = [k \in Keys |-> None]
    /\ cleanup_task = None
    /\ tasks = <<>>
    /\ heap = [o \in Objects |-> "v1"]
    /\ server = [k \in {} |-> None]

BackendCall ==
    \/ \E k \in Keys : Get(k)
    \/ \E k \in Keys, v \in Values, ttl \in TTLs : Set(k, v, ttl)
    \/ \E k \in Keys : Delete(k)
    \/ Clear
    \/ \E p \in Paths, ip \in BOOLEAN : ClearPath(p, ip)
    \/ \E p \in Patterns : ClearPattern(p)
    \/ Cleanup
    \/ Tick

(* the key functions applied: build a key for a request, parse the key just
   built, parse a string from elsewhere *)
BuildKey(method, host, path, query) ==
    /\ last' = [op |-> "default_key_builder", method |-> method, host |-> host,
                path |-> path, query |-> query,
                key |-> DefaultKeyBuilder(method, host, path, query)]
    /\ UNCHANGED <<cache, now, exact>>

ParseBuiltKey ==
    /\ last.op = "default_key_builder"
    /\ last' = [last EXCEPT !.op = "parse_built_key", !.key = ParseCacheKey(last.key)]
    /\ UNCHANGED <<cache, now, exact>>

ParseString(s) ==
    /\ last' = [op |-> "parse_cache_key", string |-> s, res |-> ParseCacheKey(s)]
    /\ UNCHANGED <<cache, now, exact>>

----------------------------------------------------------------------------
(* The sweeper.  start_cleanup and stop_cleanup are plain functions: they run
   to their end without giving the event loop a turn.  A task is created
   suspended; the loop runs it later.  Task.cancel() only requests the
   cancellation: the task is still unfinished until the loop has thrown
   CancelledError into it.  The one await inside cleanup() is the lock, which
   no call of the model holds across steps, so waking from sleep and sweeping
   are one step. *)

MaxTasks == 2
CleanupInterval == 1

(* if self._cleanup_task is None *)
(* a start that does not look at the handle *)
NeedsTask_Always(handle) == TRUE

NeedsTask(handle) == handle = None

(* asyncio.create_task(self._cleanup_task_impl()): the coroutine begins with
   sleep(self.cleanup_interval) *)
NewTask(t) ==
    [state |-> "sleeping", wake |-> t + CleanupInterval * TicksPerSec]

(* task.cancel() *)
Cancel(task) ==
    IF task.state = "done" THEN task ELSE [task EXCEPT !.state = "cancelling"]

(* _cleanup_task_impl: the loop goes on while no CancelledError arrives; the
   except clause is outside the loop, so a cancelled task leaves it *)
(* a loop that swallows the cancellation and goes on *)
CanSweep_Cancelled(task, t) == task.state # "done" /\ t >= task.wake

CanSweep(task, t) == task.state = "sleeping" /\ t >= task.wake

Alive(ts) == {i \in DOMAIN ts : ts[i].state # "done"}

StartCleanup ==
    /\ IF NeedsTask(cleanup_task)
       THEN /\ Len(tasks) < MaxTasks
            /\ tasks' = Append(tasks, NewTask(now))
            /\ cleanup_task' = Some(Len(tasks) + 1)
       ELSE UNCHANGED <<cleanup_task, tasks>>
    /\ last' = [op |-> "start_cleanup", handle |-> cleanup_task]
    /\ UNCHANGED <<cache, now, exact>>

StopCleanup ==
    /\ IF cleanup_task # None
       THEN /\ tasks' = [tasks EXCEPT ![cleanup_task[1]] = Cancel(@)]
            /\ cleanup_task' = None
       ELSE UNCHANGED <<cleanup_task, tasks>>
    /\ last' = [op |-> "stop_cleanup", handle |-> cleanup_task, raised |-> FALSE]
    /\ UNCHANGED <<cache, now, exact>>

(* the sweeper task i wakes from its sleep, awaits cleanup() and sleeps again *)
SweeperRun(i) ==
    /\ CanSweep(tasks[i], now)
    /\ cache' = Remove(cache, ExpiredKeys(cache, now))
    /\ tasks' = [tasks EXCEPT ![i].wake = now + CleanupInterval * TicksPerSec]
    /\ last' = [op |-> "cleanup", by |-> Some(i), had |-> DOMAIN cache]
    /\ UNCHANGED <<now, exact, cleanup_task>>

(* the loop when the cleanup() it awaits raises something other than a
   cancellation: the try has one handler, except asyncio.CancelledError, so
   the exception leaves the while loop and the task ends with it *)
AfterRaise(task) == [state |-> "done", wake |-> 0]

(* the sweeper task i wakes and its sweep raises, the mapping as it was *)
SweeperFail(i) ==
    /\ CanSweep(tasks[i], now)
    /\ tasks' = [tasks EXCEPT ![i] = AfterRaise(@)]
    /\ last' = [op |-> "cleanup_raised", by |-> Some(i)]
    /\ UNCHANGED <<cache, now, exact, cleanup_task>>

(* cleanup() seen at the grain of its mutex.  The sweeper leaves its sleep
   and asks for self.lock; other calls may run before it gets the lock.  The
   task remembers, for the record only, the keys that were expired when it
   asked. *)
Waiting(c, t) == [state |-> "waiting", wake |-> t, seen |-> ExpiredKeys(c, t)]

(* the keys cleanup pops: now = time.time() and the list expired_keys are
   taken inside the async with self.lock block, over the mapping as it is
   then *)
(* a sweep that pops the keys it saw expired before it had the lock *)
Scanned_BeforeLock(task, c, t) == task.seen

Scanned(task, c, t) == ExpiredKeys(c, t)

(* the sweeper task i wakes from its sleep and awaits the lock of cleanup() *)
SweeperWake(i) ==
    /\ CanSweep(tasks[i], now)
    /\ tasks' = [tasks EXCEPT ![i] = Waiting(cache, now)]
    /\ UNCHANGED <<cache, now, last, exact, cleanup_task>>

(* the task i gets the lock: scan and pops in one hold, then the next sleep *)
SweeperSweep(i) ==
    /\ tasks[i].state = "waiting"
    /\ cache' = Remove(cache, Scanned(tasks[i], cache, now))
    /\ tasks' = [tasks EXCEPT ![i] = NewTask(now)]
    /\ last' = [op |-> "cleanup", by |-> Some(i), had |-> DOMAIN cache,
                waited |-> tasks[i].seen]
    /\ UNCHANGED <<now, exact, cleanup_task>>

(* the loop delivers the cancellation: except asyncio.CancelledError: pass *)
SweeperExit(i) ==
    /\ tasks[i].state = "cancelling"
    /\ tasks' = [tasks EXCEPT ![i] = [state |-> "done", wake |-> 0]]
    /\ UNCHANGED <<cache, now, last, exact, cleanup_task>>

----------------------------------------------------------------------------
(* MemcachedBackend: the driver over a server that keeps key |-> value until
   the item's end of life and offers get, set and delete of one key, and no
   enumeration of its keys. *)

McKeys == Keys \cup Paths

(* the server holds the key and its item has not run out *)
McStored(s, key, t) ==
    key \in DOMAIN s /\ (s[key].until = None \/ t < s[key].until[1])

McGet(s, key, t) == IF McStored(s, key, t) THEN Some(s[key].value) ELSE None

McSet(s, key, value, ttl, t) ==
    [k \in DOMAIN s \cup {key} |->
        IF k = key
        THEN [value |-> value,
              until |-> IF ttl # None THEN Some(t + ttl[1] * TicksPerSec) ELSE None]
        ELSE s[k]]

(* a clear_path that deletes by prefix, as a driver with key enumeration does *)
McClearPath_Prefix(s, path, include_params, fails, t) ==
    LET ks == {k \in DOMAIN s : SplitOnce(k, ":")[1] = path
                                /\ (include_params \/ k = path)}
    IN  [store |-> Remove(s, ks), res |-> Cardinality(ks), warned |-> FALSE]

(* clear_path: no enumeration, so with include_params a warning and 0;
   without, the delete of the one key, 0 when the client's delete raises *)
McClearPath(s, path, include_params, fails, t) ==
    IF include_params THEN [store |-> s, res |-> 0, warned |-> TRUE]
    ELSE IF fails THEN [store |-> s, res |-> 0, warned |-> FALSE]
    ELSE [store |-> Remove(s, {path}),
          res |-> IF McStored(s, path, t) THEN 1 ELSE 0,
          warned |-> FALSE]

(* clear_pattern: a warning and 0 *)
McClearPattern(s, pattern) == [store |-> s, res |-> 0, warned |-> TRUE]

MemcachedSet(key, value, ttl) ==
    /\ server' = McSet(server, key, value, ttl, now)
    /\ last' = [op |-> "mc_set", key |-> key]
    /\ UNCHANGED <<cache, now, exact>>

MemcachedGet(key) ==
    /\ last' = [op |-> "mc_get", key |-> key, res |-> McGet(server, key, now)]
    /\ UNCHANGED <<cache, now, exact, server>>

MemcachedClearPath(path, include_params, fails) ==
    LET out == McClearPath(server, path, include_params, fails, now)
    IN  /\ server' = out.store
        /\ last' = [op |-> "mc_clear_path", path |-> path,
                    include_params |-> include_params, fails |-> fails,
                    res |-> out.res, warned |-> out.warned,
                    stored |-> McStored(server, path, now)]
        /\ UNCHANGED <<cache, now, exact>>

MemcachedClearPattern(pattern) ==
    LET out == McClearPattern(server, pattern)
    IN  /\ server' = out.store
        /\ last' = [op |-> "mc_clear_pattern", res |-> out.res, warned |-> out.warned]
        /\ UNCHANGED <<cache, now, exact>>

----------------------------------------------------------------------------
(* BackendProxy (proxy.py): the process-wide slot _default_backend.  A backend
   instance is known by its name. *)

Backends == {"memory", "redis"}
Slots == {None} \cup {Some(b) : b \in Backends}

(* get_backend() on a slot: the exception it raises, or the backend it returns *)
ProxyGet(slot) ==
    IF slot = None THEN [err |-> "BackendNotFoundError", res |-> None]
    ELSE [err |-> "none", res |-> slot]

(* set_backend(backend) on a slot: the slot afterwards *)
(* a set that keeps a backend already installed *)
ProxySet_KeepFirst(slot, backend) == IF slot = None THEN backend ELSE slot

ProxySet(slot, backend) == backend

GetBackend ==
    /\ last' = [op |-> "get_backend", err |-> ProxyGet(default_backend).err,
                res |-> ProxyGet(default_backend).res]
    /\ UNCHANGED <<default_backend, assigned>>

SetBackend(backend) ==
    /\ default_backend' = ProxySet(default_backend, backend)
    /\ assigned' = backend
    /\ last' = [op |-> "set_backend", backend |-> backend]

InitProxy ==
    /\ default_backend = None
    /\ assigned = None

----------------------------------------------------------------------------
(* The @cache decorator's wrapper (cache.py).  A request is (method,
   If-None-Match, the Response object FastAPI may pass among the keyword
   arguments); host, path and query are the same for every request, so the
   method alone tells two cache keys apart. *)

MaxCalls == 2

Methods == {"GET", "POST"}
Handlers == {"static", "counting"}

(* the body the handler returns on its n-th invocation *)
HandlerBody(f, n) == IF f = "counting" THEN <<"count", n>> ELSE <<"static">>

EmptyBody == <<>>

(* f'W/"{hashlib.md5(content).hexdigest()}"': md5 as an injective tag *)
Md5Hex(content) == <<"md5", content>>
ETagOf(content) == <<"W/", Md5Hex(content)>>

(* If-None-Match: absent, or the ETag of a handler's first body *)
IfNoneMatch == {None} \cup {Some(ETagOf(HandlerBody(f, 1))) : f \in Handlers}

(* a Response object among the keyword arguments: Response() as FastAPI
   injects it, with an empty body *)
KwResponses == {None, Some([status |-> "200", body |-> EmptyBody])}

Configs ==
    [ttl : {None, Some(1)}, stale_ttl : {None, Some(1)},
     stale : {None, Some("error"), Some("revalidate")},
     no_cache : BOOLEAN, no_store : BOOLEAN, public : BOOLEAN,
     private : BOOLEAN, immutable : BOOLEAN, must_revalidate : BOOLEAN]

(* CacheControl.add: f"{directive.value}={value}" or directive.value *)
(* an add that drops the value *)
Directive_NoValue(name, value) == <<name>>

Directive(name, value) == IF value # None THEN <<name, value[1]>> ELSE <<name>>

(* the normal case of the header, lines 150-178 *)
NormalDirectives(c) ==
    (IF c.public THEN <<Directive("public", None)>>
     ELSE IF c.private THEN <<Directive("private", None)>> ELSE <<>>)
    \o (IF c.ttl # None THEN <<Directive("max-age", c.ttl)>> ELSE <<>>)
    \o (IF c.must_revalidate THEN <<Directive("must-revalidate", None)>> ELSE <<>>)
    \o (IF c.stale = Some("revalidate")
        THEN <<Directive("stale-while-revalidate", c.stale_ttl)>>
        ELSE IF c.stale = Some("error")
        THEN <<Directive("stale-if-error", c.stale_ttl)>> ELSE <<>>)
    \o (IF c.immutable THEN <<Directive("immutable", None)>> ELSE <<>>)

(* if no_store: the header is no-store and the wrapper returns *)
(* a no_store that gives way to no_cache *)
NoStoreCase_UnlessNoCache(c) == c.no_store /\ ~c.no_cache

NoStoreCase(c) == c.no_store

(* The wrapper's body: what it returns for one request.  invoked says
   whether func was awaited (line 112). *)
Wrapper(c, f, n, method, inm, kw) ==
    LET invoked == kw = None
        response == IF kw # None THEN kw[1]
                    ELSE [status |-> "200", body |-> HandlerBody(f, n + 1)]
        content == response.body
        etag == ETagOf(content)
        answer(status, body, cc) ==
            [method |-> method, inm |-> inm, kw |-> kw, invoked |-> invoked,
             status |-> status, body |-> body, etag |-> Some(etag), cc |-> cc,
             before |-> None]
    IN  IF inm # None /\ inm[1] = etag
        THEN answer("304", EmptyBody, None)
        ELSE IF NoStoreCase(c)
        THEN answer(response.status, content, Some(<<Directive("no-store", None)>>))
        ELSE IF c.no_cache
        THEN answer(response.status, content,
                    Some(<<Directive("no-cache", None)>>
                         \o (IF c.must_revalidate
                             THEN <<Directive("must-revalidate", None)>> ELSE <<>>)))
        ELSE IF c.stale # None /\ c.stale_ttl = None
        THEN [method |-> method, inm |-> inm, kw |-> kw, invoked |-> invoked,
              status |-> "CacheXError", body |-> EmptyBody, etag |-> None, cc |-> None,
              before |-> None]
        ELSE answer(response.status, content, Some(NormalDirectives(c)))

(* what is remembered of an answer: what the client saw, and whether the
   request carried a Response object *)
Seen(r) ==
    [status |-> r.status, body |-> r.body, etag |-> r.etag, cc |-> r.cc, kw |-> r.kw]

(* The default key builder: method, host, path, query joined by "|||".  Every
   request of the model is for host h, path /a, no query. *)
RequestKey(method) == IF method = "GET" THEN StrKey ELSE <<"P">> \o Tail(StrKey)

(* ttl set and neither no_store nor no_cache: the decoration asks for storing *)
Storing(c) == c.ttl # None /\ ~c.no_store /\ ~c.no_cache

(* One request through the wrapper.  The wrapper never calls the backend:
   self.cache is as it was. *)
Request(method, inm, kw) ==
    LET r == Wrapper(cfg, func, calls, method, inm, kw)
    IN  /\ calls < MaxCalls
        /\ resp' = [r EXCEPT !.before = hist[method]]
        /\ calls' = IF r.invoked THEN calls + 1 ELSE calls
        /\ hist' = [hist EXCEPT ![method] = Some(Seen(r))]
        /\ UNCHANGED <<cfg, func, cache, now, last, exact, sessvars, statevars,
                     proxyvars, sweepvars, heapvars, mcvars>>

NoRequest == [method |-> "none"]

(* the decorations the requests are run under *)
RouteConfigs ==
    {c \in Configs :
        /\ c.stale \in {None, Some("revalidate")} /\ c.stale_ttl = None
        /\ ~c.private /\ ~c.immutable /\ ~c.must_revalidate}

InitEngine ==
    /\ InitProxy
    /\ cfg \in RouteConfigs
    /\ func \in Handlers
    /\ calls = 0
    /\ resp = NoRequest
    /\ hist = [m \in Methods |-> None]

(* every decoration *)
InitEngineAll ==
    /\ InitProxy
    /\ cfg \in Configs
    /\ func \in Handlers
    /\ calls = 0
    /\ resp = NoRequest
    /\ hist = [m \in Methods |-> None]

(* the engine idle: the backend used on its own *)
IdleConfig ==
    [ttl |-> None, stale_ttl |-> None, stale |-> None, no_cache |-> FALSE,
     no_store |-> FALSE, public |-> FALSE, private |-> FALSE,
     immutable |-> FALSE, must_revalidate |-> FALSE]

InitEngineIdle ==
    /\ InitProxy
    /\ cfg = IdleConfig
    /\ func = "static"
    /\ calls = 0
    /\ resp = NoRequest
    /\ hist = [m \in Methods |-> None]

----------------------------------------------------------------------------
(* SessionManager over the backend.  session/manager.py, models.py and
   security.py are not among the sources; the operations follow sections 4.D
   and 4.E of the specification and tests/session.  Each await of a backend
   call is a suspension point: a call with two backend calls is two steps. *)

MaxSessions == 2
MaxSessTime == 4
SessionTtl == 2

Callers == {"a", "b"}
SessionIds == 1..MaxSessions
Users == {Some("u1")}
UserChoices == {None, Some("u1"), Some("u2")}
UserIds == {"u1", "u2"}
Datas == {"d0", "d1"}
Addrs == {None, Some("ip1"), Some("ip2")}
Agents == {None, Some("ua1"), Some("ua2")}
SecretKey == "K"
(* sign(s) = hex(HMAC-SHA256(secret, s)): HMAC as an injective tag *)
Sign(secret, sid) == <<"hmac", secret, sid>>
VerifySignature_Any(sid, signature) == TRUE
VerifySignature(sid, signature) == signature = Sign(SecretKey, sid)

(* SessionToken.to_string: session_id "." signature "." issued_at; a token
   string is the sequence of its dot-separated fields *)
TokenString(sid, signature) == <<sid, signature, "iat">>
ValidToken(sid) == TokenString(sid, Sign(SecretKey, sid))
TamperedToken(sid) == TokenString(sid, <<"invalid_signature", Sign(SecretKey, sid)>>)
TokensOf(ids) ==
    {ValidToken(i) : i \in ids} \cup {TamperedToken(i) : i \in ids}
    \cup {<<"invalid-token">>}
Tokens == TokensOf(SessionIds)

(* SessionToken on the wire: session_id "." signature "." timestamp, the
   strings being sequences of characters *)
MaxIssued == 2
MaxTokenLen == 5

TokenChars == {"a", ".", "1"}
TokenTexts == UNION {[1..n -> TokenChars] : n \in 0..MaxTokenLen}
TokenIds == {<<"a">>, <<"a", "1">>}
TokenSignatures == {<<"1", "a">>, <<"a">>}
WireTokens ==
    [session_id : TokenIds, signature : TokenSignatures, issued_at : 0..MaxIssued]

DigitChars == <<"0", "1", "2", "3", "4", "5", "6", "7", "8", "9">>

RECURSIVE FormatTime(_)
FormatTime(n) ==
    IF n < Len(DigitChars) THEN <<DigitChars[n + 1]>>
    ELSE FormatTime(n \div Len(DigitChars)) \o <<DigitChars[(n % Len(DigitChars)) + 1]>>

DigitValue(ch) == CHOOSE d \in 0..(Len(DigitChars) - 1) : DigitChars[d + 1] = ch

RECURSIVE TimeValue(_)
TimeValue(f) ==
    IF f = <<>> THEN 0
    ELSE TimeValue(SubSeq(f, 1, Len(f) - 1)) * Len(DigitChars) + DigitValue(f[Len(f)])

(* the timestamp a field reads as, none when it reads as no number *)
ParseTime(f) ==
    IF f = <<>> \/ \E i \in 1..Len(f) : \A d \in 1..Len(DigitChars) : DigitChars[d] # f[i]
    THEN None
    ELSE Some(TimeValue(f))

(* str.split("."): every field, empty ones included *)
RECURSIVE SplitDots(_)
SplitDots(s) ==
    IF \A i \in 1..Len(s) : s[i] # "."
    THEN <<s>>
    ELSE LET i == CHOOSE j \in 1..Len(s) : s[j] = "." /\ \A k \in 1..(j - 1) : s[k] # "."
         IN  <<SubSeq(s, 1, i - 1)>> \o SplitDots(SubSeq(s, i + 1, Len(s)))

(* a to_string that leaves the timestamp out *)
SessionTokenToString_TwoFields(x) == x.session_id \o <<".">> \o x.signature

(* SessionToken.to_string: three fields, two dots *)
SessionTokenToString(x) ==
    x.session_id \o <<".">> \o x.signature \o <<".">> \o FormatTime(x.issued_at)

(* SessionToken.from_string *)
SessionTokenFromString(s) ==
    LET parts == SplitDots(s) IN
    IF Len(parts) # 3
    THEN [err |-> "ValueError: Invalid token format", token |-> None]
    ELSE IF ParseTime(parts[3]) = None
    THEN [err |-> "ValueError: Invalid timestamp", token |-> None]
    ELSE [err |-> "none",
          token |-> Some([session_id |-> parts[1], signature |-> parts[2],
                          issued_at |-> ParseTime(parts[3])[1]])]

TokenRoundTrip(x) ==
    /\ last' = [op |-> "round_trip", token |-> x, string |-> SessionTokenToString(x),
                res |-> SessionTokenFromString(SessionTokenToString(x))]
    /\ UNCHANGED <<cache, now, exact>>

TokenFromString(s) ==
    /\ last' = [op |-> "from_string", string |-> s, res |-> SessionTokenFromString(s)]
    /\ UNCHANGED <<cache, now, exact>>

(* SessionToken.from_string: the arity the tests accept *)
TokenParses(tok) == Len(tok) = 3

SessKey(sid) == <<"session:", sid>>

NewSession(sid, user, ip, ua, t) ==
    [session_id |-> sid, status |-> "ACTIVE", user |-> user,
     last_accessed |-> t,
     expires_at |-> Some(t + SessionTtl * TicksPerSec), data |-> "d0",
     ip_address |-> ip, user_agent |-> ua]

(* Session.is_expired *)
IsExpired(sess, t) == sess.expires_at # None /\ sess.expires_at[1] <= t

(* _save_session: ttl = max(1, expires_at - now), in whole seconds *)
SaveTtl(sess, t) ==
    IF sess.expires_at = None THEN None
    ELSE LET secs == (sess.expires_at[1] - t) \div TicksPerSec
         IN  Some(IF secs > 1 THEN secs ELSE 1)

SaveSession(c, sess, t) == MemSet(c, SessKey(sess.session_id), sess, SaveTtl(sess, t), t)

(* sliding renewal: (expires_at - now) < (1 - sliding_threshold) * session_ttl;
   scfg.sliding_threshold counts the threshold in quarters (2 is 0.5) *)
Quarters == 4

NeedsRenewal(sess, t) ==
    /\ scfg.sliding_expiration
    /\ sess.expires_at # None
    /\ Quarters * (sess.expires_at[1] - t)
            < (Quarters - scfg.sliding_threshold) * SessionTtl * TicksPerSec

(* SecurityManager.check_ip_match / check_user_agent_match *)
CheckIpMatch(sess, ip) == sess.ip_address = None \/ sess.ip_address = ip
CheckUserAgentMatch(sess, ua) == sess.user_agent = None \/ sess.user_agent = ua

(* get_session up to its last check: the error, or the session loaded *)
GetSessionChecks(c, tok, ip, ua, t) ==
    IF ~TokenParses(tok)
    THEN [err |-> "SessionTokenError", session |-> None]
    ELSE IF ~VerifySignature(tok[1], tok[2])
    THEN [err |-> "SessionSecurityError: Invalid session signature", session |-> None]
    ELSE LET found == MemGet(c, SessKey(tok[1]), t)
         IN  IF found = None
             THEN [err |-> "SessionNotFoundError", session |-> None]
             ELSE IF found[1].status # "ACTIVE"
             THEN [err |-> "SessionInvalidError", session |-> None]
             ELSE IF IsExpired(found[1], t)
             THEN [err |-> "SessionExpiredError", session |-> None]
             ELSE IF scfg.ip_binding /\ ~CheckIpMatch(found[1], ip)
             THEN [err |-> "SessionSecurityError: IP address mismatch", session |-> None]
             ELSE IF scfg.user_agent_binding /\ ~CheckUserAgentMatch(found[1], ua)
             THEN [err |-> "SessionSecurityError: User-Agent mismatch", session |-> None]
             ELSE [err |-> "none", session |-> found]

Idle(c) == pend[c] = None

(* history: a write to or a removal of the entry of sid that is neither an
   invalidation nor a deletion *)
Touched(sid) == [gone EXCEPT ![sid] = [@ EXCEPT !.clean = FALSE]]

(* the item the mapping holds for a session id, readable or not *)
Stored(c, sid) == IF SessKey(sid) \in DOMAIN c THEN Some(c[SessKey(sid)].value) ELSE None

(* what a get_session call returned: the error or the session ret (which
   also goes to held[c]).  History: gone is what had happened to the token's
   session id when the call started, stored the item the mapping held for
   it, found whether the backend returned it, at the instant of the call. *)
GetSessionResult(c, tok, out, ret, g, found) ==
    [op |-> "get_session", token |-> tok, ip |-> c.ip, ua |-> c.ua,
     err |-> out.err, ret |-> ret, gone |-> g,
     stored |-> IF TokenParses(tok) THEN Stored(cache, tok[1]) ELSE None,
     found |-> found, at |-> now]

CreateSession(c, user, ip, ua) ==
    /\ Idle(c)
    /\ nextId < MaxSessions
    /\ LET sess == NewSession(nextId + 1, user, ip, ua, now)
       IN  /\ cache' = MemSet(cache, SessKey(sess.session_id), sess, Some(SessionTtl), now)
           /\ held' = [held EXCEPT ![c] = Some(sess)]
           /\ last' = [op |-> "create_session", session |-> sess,
                       token |-> ValidToken(sess.session_id)]
    /\ nextId' = nextId + 1
    /\ UNCHANGED <<now, exact, engvars, heapvars, mcvars, proxyvars, sweepvars, statevars, scfg, pend, gone>>

(* get_session: parse, verify, load and check; a session that needs no
   renewal is returned at once, one that does is re-persisted first *)
GetSession(c, tok, ip, ua) ==
    /\ Idle(c)
    /\ LET out == GetSessionChecks(cache, tok, ip, ua, now)
           g == IF TokenParses(tok) /\ tok[1] \in SessionIds THEN Some(gone[tok[1]]) ELSE None
           found == TokenParses(tok) /\ MemGet(cache, SessKey(tok[1]), now) # None
       IN  IF out.err = "none" /\ NeedsRenewal(out.session[1], now)
           THEN LET renewed == [out.session[1] EXCEPT
                                    !.expires_at = Some(now + SessionTtl * TicksPerSec),
                                    !.last_accessed = now]
                IN  /\ pend' = [pend EXCEPT ![c] =
                            Some(GetSessionResult([ip |-> ip, ua |-> ua], tok, out,
                                                  Some(renewed), g, found))]
                    /\ held' = [held EXCEPT ![c] = Some(renewed)]
                    /\ UNCHANGED last
           ELSE /\ last' = GetSessionResult([ip |-> ip, ua |-> ua], tok, out,
                                             out.session, g, found)
                /\ held' = IF out.err = "none"
                           THEN [held EXCEPT ![c] = out.session] ELSE held
                /\ UNCHANGED pend
    /\ UNCHANGED <<cache, now, exact, engvars, heapvars, mcvars, proxyvars, sweepvars,
                   statevars, scfg, nextId, gone>>

GetSessionRenew(c) ==
    /\ pend[c] # None /\ pend[c][1].op = "get_session"
    /\ cache' = SaveSession(cache, held[c][1], now)
    /\ gone' = Touched(held[c][1].session_id)
    /\ last' = pend[c][1]
    /\ pend' = [pend EXCEPT ![c] = None]
    /\ UNCHANGED <<now, exact, engvars, heapvars, mcvars, proxyvars, sweepvars, statevars, scfg, held, nextId>>

(* the caller changes the object it holds *)
MutateData(c, d) ==
    /\ Idle(c) /\ held[c] # None
    /\ held[c][1].data # d
    /\ held' = [held EXCEPT ![c] = Some([held[c][1] EXCEPT !.data = d])]
    /\ UNCHANGED <<cache, now, last, exact, engvars, heapvars, mcvars, proxyvars, sweepvars,
                   statevars, scfg, pend, nextId, gone>>

(* session.expires_at = datetime.now() + timedelta(seconds=secs) *)
MutateExpiry(c, secs) ==
    /\ Idle(c) /\ held[c] # None
    /\ held[c][1].expires_at # Some(now + secs * TicksPerSec)
    /\ held' = [held EXCEPT ![c] =
                    Some([held[c][1] EXCEPT !.expires_at = Some(now + secs * TicksPerSec)])]
    /\ UNCHANGED <<cache, now, last, exact, engvars, heapvars, mcvars, proxyvars, sweepvars,
                   statevars, scfg, pend, nextId, gone>>

UpdateSession(c) ==
    /\ Idle(c) /\ held[c] # None
    /\ cache' = SaveSession(cache, held[c][1], now)
    /\ gone' = Touched(held[c][1].session_id)
    /\ last' = [op |-> "update_session", session |-> held[c][1], at |-> now]
    /\ UNCHANGED <<now, exact, engvars, heapvars, mcvars, proxyvars, sweepvars,
                   statevars, scfg, held, pend, nextId>>

(* invalidate_session(session): session.status := INVALIDATED, then persist *)
InvalidateSession(c) ==
    /\ Idle(c) /\ held[c] # None
    /\ LET sess == [held[c][1] EXCEPT !.status = "INVALIDATED"]
       IN  /\ cache' = SaveSession(cache, sess, now)
           /\ held' = [held EXCEPT ![c] = Some(sess)]
           /\ gone' = [gone EXCEPT ![sess.session_id] =
                          [kind |-> "invalidated", clean |-> TRUE]]
    /\ last' = [op |-> "invalidate_session"]
    /\ UNCHANGED <<now, exact, engvars, heapvars, mcvars, proxyvars, sweepvars, statevars, scfg, pend, nextId>>

(* regenerate_session_id(session): delete the old key (an await), then
   session.regenerate_id() and persist under the new id (a second await) *)
RegenerateDelete(c) ==
    /\ Idle(c) /\ held[c] # None
    /\ nextId < MaxSessions
    /\ cache' = MemDelete(cache, SessKey(held[c][1].session_id))
    /\ pend' = [pend EXCEPT ![c] =
                    Some([op |-> "regenerate_session_id", old |-> held[c][1].session_id])]
    /\ UNCHANGED <<now, last, exact, engvars, heapvars, mcvars, proxyvars, sweepvars,
                   statevars, scfg, held, nextId, gone>>

RegeneratePersist(c) ==
    /\ pend[c] # None /\ pend[c][1].op = "regenerate_session_id"
    /\ nextId < MaxSessions
    /\ LET old == pend[c][1].old
           sess == [held[c][1] EXCEPT !.session_id = nextId + 1]
       IN  /\ cache' = SaveSession(cache, sess, now)
           /\ held' = [held EXCEPT ![c] = Some(sess)]
           /\ gone' = [gone EXCEPT ![old] = [kind |-> "regenerated", clean |-> TRUE]]
           /\ last' = [op |-> "regenerate_session_id", old |-> old,
                       before |-> held[c][1], session |-> sess,
                       token |-> ValidToken(sess.session_id)]
    /\ nextId' = nextId + 1
    /\ pend' = [pend EXCEPT ![c] = None]
    /\ UNCHANGED <<now, exact, engvars, heapvars, mcvars, proxyvars, sweepvars, statevars, scfg>>

DeleteSession(sid) ==
    /\ cache' = MemDelete(cache, SessKey(sid))
    \* ids are fresh random strings: only an id already handed out names a session
    /\ gone' = IF sid <= nextId
               THEN [gone EXCEPT ![sid] = [kind |-> "deleted", clean |-> TRUE]]
               ELSE gone
    /\ last' = [op |-> "delete_session", sid |-> sid]
    /\ UNCHANGED <<now, exact, engvars, heapvars, mcvars, proxyvars, sweepvars,
                   statevars, scfg, held, pend, nextId>>

(* delete_user_sessions(user_id): iterate the keys the backend enumerates
   under the session prefix, load each, delete those whose user.user_id
   matches, return how many; without enumeration there is nothing to
   iterate and the count is 0 *)
UserSessionKeys(c, keys, uid, t) ==
    {k \in keys : /\ k[1] = "session:"
                  /\ MemGet(c, k, t) # None
                  /\ MemGet(c, k, t)[1].user = Some(uid)}

DeleteUserSessions(uid) ==
    /\ \A c \in Callers : Idle(c)
    /\ LET keys == MemGetAllKeys(cache)
           del == IF keys = None THEN {} ELSE UserSessionKeys(cache, keys[1], uid, now)
       IN  /\ cache' = Remove(cache, del)
           /\ gone' = [sid \in SessionIds |->
                          IF SessKey(sid) \in del
                          THEN [kind |-> "deleted", clean |-> TRUE] ELSE gone[sid]]
           /\ last' = [op |-> "delete_user_sessions", user_id |-> uid,
                       count |-> Cardinality(del)]
    /\ UNCHANGED <<now, exact, engvars, heapvars, mcvars, proxyvars, sweepvars,
                   statevars, scfg, held, pend, nextId>>

(* SessionMiddleware.dispatch.  The token comes from the request's header
   (none when there is no header); get_session is awaited with the client's
   address and agent; a SessionError is caught and leaves no session; the
   session or none is attached to request.state; call_next is awaited and
   its response returned.  An error that is no SessionError is not caught:
   the handler is not reached and the error is the answer. *)
SessionErrors ==
    {"SessionTokenError", "SessionNotFoundError", "SessionExpiredError",
     "SessionInvalidError", "SessionSecurityError: Invalid session signature",
     "SessionSecurityError: IP address mismatch",
     "SessionSecurityError: User-Agent mismatch"}

(* except SessionError *)
IsSessionError(err) == err \in SessionErrors

Headers == {None} \cup {Some(tok) : tok \in TokensOf({1})}

Dispatch(header, ip, ua) ==
    LET out == IF header = None THEN [err |-> "none", session |-> None]
               ELSE GetSessionChecks(cache, header[1], ip, ua, now)
        renew == out.session # None /\ NeedsRenewal(out.session[1], now)
        sess == IF renew
                THEN Some([out.session[1] EXCEPT
                                !.expires_at = Some(now + SessionTtl * TicksPerSec),
                                !.last_accessed = now])
                ELSE out.session
        caught == out.err = "none" \/ IsSessionError(out.err)
    IN  /\ \A c \in Callers : Idle(c)
        /\ cache' = IF renew THEN SaveSession(cache, sess[1], now) ELSE cache
        /\ gone' = IF renew THEN Touched(sess[1].session_id) ELSE gone
        /\ last' = [op |-> "dispatch", header |-> header, ip |-> ip, ua |-> ua,
                    err |-> out.err,
                    attached |-> IF caught THEN sess ELSE None,
                    called |-> IF caught THEN 1 ELSE 0,
                    response |-> IF caught THEN "call_next" ELSE out.err]
        /\ UNCHANGED <<now, exact, engvars, heapvars, mcvars, proxyvars, sweepvars,
                       statevars, scfg, held, pend, nextId>>

TickSess ==
    /\ now < MaxSessTime
    /\ now' = now + 1
    /\ UNCHANGED <<cache, last, exact, engvars, heapvars, mcvars, proxyvars, sweepvars, statevars, sessvars>>

NeverGone == [kind |-> "none", clean |-> TRUE]

InitSessionIdle ==
    /\ scfg = [sliding_expiration |-> TRUE, sliding_threshold |-> 2,
               ip_binding |-> FALSE, user_agent_binding |-> FALSE]
    /\ held = [c \in Callers |-> None]
    /\ pend = [c \in Callers |-> None]
    /\ nextId = 0
    /\ gone = [i \in SessionIds |-> NeverGone]

InitSession == InitSessionIdle

(* a manager with sliding expiration on or off and a threshold of one, two
   or three quarters *)
InitSessionSliding ==
    /\ scfg \in [sliding_expiration : BOOLEAN, sliding_threshold : 1..(Quarters - 1),
                  ip_binding : {FALSE}, user_agent_binding : {FALSE}]
    /\ held = [c \in Callers |-> None]
    /\ pend = [c \in Callers |-> None]
    /\ nextId = 0
    /\ gone = [i \in SessionIds |-> NeverGone]

(* a manager with any combination of the two client bindings *)
InitSessionBinding ==
    /\ scfg \in [sliding_expiration : {TRUE}, sliding_threshold : {2},
                  ip_binding : BOOLEAN, user_agent_binding : BOOLEAN]
    /\ held = [c \in Callers |-> None]
    /\ pend = [c \in Callers |-> None]
    /\ nextId = 0
    /\ gone = [i \in SessionIds |-> NeverGone]

----------------------------------------------------------------------------
(* The one-shot state manager.  StateManager keeps no state of its own
   beyond its key prefix and reaches the backend through BackendProxy: each
   caller stands for a task driving its own StateManager instance over the
   one shared backend. *)

MaxStates == 2
MaxStateTime == 3
StateTtl == 1

States == 1..MaxStates
Metadatas == {"m1", "m2"}

StateKey(state) == <<"state:", state>>

NewState(state, metadata, t) ==
    [state |-> state, metadata |-> metadata, expires_at |-> t + StateTtl * TicksPerSec]

(* the stored contents that are no StateData: a text that is no JSON, a
   content that is no string, a JSON object whose expires_at is no date, one
   whose metadata is no mapping *)
Malformed == {"not valid json", "12345", "bad-date", "not a dict"}

BadContent(what) == [malformed |-> what]

(* the stored contents that are a StateData, whatever their expires_at *)
GoodContents ==
    {[state |-> st, metadata |-> m, expires_at |-> e] :
        st \in States, m \in Metadatas, e \in 0..MaxStateTime}

(* isinstance(content, str), json.loads and the StateData constructor, in the order
   the reader applies them *)
ParseState(content) ==
    IF "malformed" \notin DOMAIN content
    THEN [err |-> "none", msg |-> "", data |-> Some(content)]
    ELSE [err |-> "StateDataError",
          msg |-> CASE content.malformed = "12345" -> "Unexpected state data format"
                    [] content.malformed = "not valid json" -> "Failed to parse state data"
                    [] OTHER -> "Invalid state data structure",
          data |-> None]

(* the load and the checks that consume_state, validate_state and
   get_state_metadata share *)
LoadState(c, state, t) ==
    LET v == MemGet(c, StateKey(state), t) IN
    IF v = None
    THEN [err |-> "InvalidStateError", msg |-> "Invalid or expired state", data |-> None]
    ELSE LET parsed == ParseState(v[1]) IN
         IF parsed.err # "none" THEN parsed
         ELSE IF t > v[1].expires_at
              THEN [err |-> "StateExpiredError", msg |-> "", data |-> None]
              ELSE [err |-> "none", msg |-> "", data |-> v]

(* a content written to the state's key behind the manager's back:
   backend.set(cache_key, etag_content, ttl) *)
PutContent(state, content) ==
    /\ cache' = MemSet(cache, StateKey(state), content, Some(StateTtl), now)
    /\ last' = [op |-> "put_content", state |-> state]
    /\ UNCHANGED <<now, exact, engvars, heapvars, mcvars, proxyvars, sweepvars, sessvars, statevars>>

CreateState(c, metadata) ==
    /\ Idle(c)
    /\ nextId < MaxStates
    /\ nextId' = nextId + 1
    /\ cache' = MemSet(cache, StateKey(nextId'), NewState(nextId', metadata, now),
                       Some(StateTtl), now)
    /\ made' = [made EXCEPT ![nextId'] = Some([metadata |-> metadata, at |-> now])]
    /\ last' = [op |-> "create_state", state |-> nextId']
    /\ UNCHANGED <<now, exact, engvars, heapvars, mcvars, proxyvars, sweepvars,
                   scfg, held, pend, gone, consumed>>

(* consume_state up to its await of backend.get: a failed load ends the call,
   a good one leaves it suspended before the delete *)
ConsumeState(c, state) ==
    /\ Idle(c)
    /\ LET out == LoadState(cache, state, now) IN
       IF out.err = "none"
       THEN /\ pend' = [pend EXCEPT ![c] =
                    Some([op |-> "consume_state", state |-> state, data |-> out.data[1],
                          before |-> consumed[state]])]
            /\ UNCHANGED last
       ELSE /\ last' = [op |-> "consume_state", state |-> state, err |-> out.err,
                        msg |-> out.msg, before |-> consumed[state], nth |-> 0]
            /\ UNCHANGED pend
    /\ cache' = MemGetStore(cache, StateKey(state), now)
    /\ UNCHANGED <<now, exact, engvars, heapvars, mcvars, proxyvars, sweepvars,
                   scfg, held, nextId, gone, consumed, made>>

(* the rest of consume_state: delete the key, return the StateData *)
ConsumeStateDelete(c) ==
    /\ pend[c] # None
    /\ pend[c][1].op = "consume_state"
    /\ LET call == pend[c][1] IN
       /\ cache' = MemDelete(cache, StateKey(call.state))
       /\ consumed' = [consumed EXCEPT ![call.state] = @ + 1]
       /\ last' = [op |-> "consume_state", state |-> call.state, err |-> "none",
                   before |-> call.before, nth |-> consumed'[call.state],
                   metadata |-> call.data.metadata]
    /\ pend' = [pend EXCEPT ![c] = None]
    /\ UNCHANGED <<now, exact, engvars, heapvars, mcvars, proxyvars, sweepvars,
                   scfg, held, nextId, gone, made>>

ValidateState(c, state) ==
    /\ Idle(c)
    /\ last' = [op |-> "validate_state", state |-> state,
                res |-> LoadState(cache, state, now).err = "none",
                before |-> consumed[state]]
    /\ cache' = MemGetStore(cache, StateKey(state), now)
    /\ UNCHANGED <<now, exact, engvars, heapvars, mcvars, proxyvars, sweepvars, sessvars, statevars>>

GetStateMetadata(c, state) ==
    /\ Idle(c)
    /\ LET out == LoadState(cache, state, now) IN
       last' = [op |-> "get_state_metadata", state |-> state,
                res |-> IF out.err = "none" THEN Some(out.data[1].metadata) ELSE None,
                before |-> consumed[state]]
    /\ cache' = MemGetStore(cache, StateKey(state), now)
    /\ UNCHANGED <<now, exact, engvars, heapvars, mcvars, proxyvars, sweepvars, sessvars, statevars>>

DeleteState(c, state) ==
    /\ Idle(c)
    /\ cache' = MemDelete(cache, StateKey(state))
    /\ last' = [op |-> "delete_state", state |-> state]
    /\ UNCHANGED <<now, exact, engvars, heapvars, mcvars, proxyvars, sweepvars, sessvars, statevars>>

InitState ==
    /\ consumed = [st \in States |-> 0]
    /\ made = [st \in States |-> None]

TickState ==
    /\ now < MaxStateTime
    /\ now' = now + 1
    /\ UNCHANGED <<cache, last, exact, engvars, heapvars, mcvars, proxyvars, sweepvars, sessvars, statevars>>

----------------------------------------------------------------------------
(* The specifications *)

InitMem == InitBackend /\ InitEngineIdle /\ InitSessionIdle /\ InitState

NextMem == BackendCall /\ UNCHANGED <<engvars, heapvars, mcvars, proxyvars, sweepvars, statevars, sessvars>>

SpecMem == InitMem /\ [][NextMem]_vars

InitCache == InitBackend /\ InitEngine /\ InitSessionIdle /\ InitState

NextCache == \E m \in Methods, inm \in IfNoneMatch, kw \in KwResponses : Request(m, inm, kw)

SpecCache == InitCache /\ [][NextCache]_vars

InitSess == InitBackend /\ InitEngineIdle /\ InitSession /\ InitState

(* several sessions and two callers, at one instant *)
NextSess ==
    \/ \E c \in Callers, u \in Users : CreateSession(c, u, None, None)
    \/ \E c \in Callers, tok \in Tokens : GetSession(c, tok, None, None)
    \/ \E c \in Callers : UpdateSession(c)
    \/ \E c \in Callers : InvalidateSession(c)
    \/ \E sid \in SessionIds : DeleteSession(sid)

SpecSess == InitSess /\ [][NextSess]_vars

(* the life of one session under two callers, the clock running *)
NextSessOne ==
    \/ \E c \in Callers, u \in Users : nextId = 0 /\ CreateSession(c, u, None, None)
    \/ \E c \in Callers, tok \in TokensOf({1}) : GetSession(c, tok, None, None)
    \/ \E c \in Callers : GetSessionRenew(c)
    \/ \E c \in Callers : UpdateSession(c)
    \/ \E c \in Callers : InvalidateSession(c)
    \/ DeleteSession(1)
    \/ TickSess

SpecSessOne == InitSess /\ [][NextSessOne]_vars

(* one session under two callers that change its data, at one instant *)
NextRound ==
    \/ \E c \in Callers, u \in Users : nextId = 0 /\ CreateSession(c, u, None, None)
    \/ \E c \in Callers, tok \in TokensOf({1}) : GetSession(c, tok, None, None)
    \/ \E c \in Callers, d \in Datas : MutateData(c, d)
    \/ \E c \in Callers : UpdateSession(c)
    \/ \E c \in Callers : InvalidateSession(c)
    \/ DeleteSession(1)

SpecRound == InitSess /\ [][NextRound]_vars

(* a session whose id is regenerated, under two callers, at one instant *)
NextRegen ==
    \/ \E c \in Callers, u \in Users : nextId = 0 /\ CreateSession(c, u, None, None)
    \/ \E c \in Callers, tok \in {ValidToken(i) : i \in SessionIds} :
            GetSession(c, tok, None, None)
    \/ \E c \in Callers, d \in Datas : MutateData(c, d)
    \/ \E c \in Callers : UpdateSession(c)
    \/ \E c \in Callers : RegenerateDelete(c)
    \/ \E c \in Callers : RegeneratePersist(c)

SpecRegen == InitSess /\ [][NextRegen]_vars

(* one session whose expires_at a caller sets into the past, the clock running *)
NextExpiry ==
    \/ \E c \in Callers, u \in Users : nextId = 0 /\ CreateSession(c, u, None, None)
    \/ \E c \in Callers : GetSession(c, ValidToken(1), None, None)
    \/ \E c \in Callers : GetSessionRenew(c)
    \/ \E c \in Callers : MutateExpiry(c, -1)
    \/ \E c \in Callers : UpdateSession(c)
    \/ \E c \in Callers : InvalidateSession(c)
    \/ TickSess

SpecExpiry == InitSess /\ [][NextExpiry]_vars

(* one session bound to a client, fetched from several clients, at one instant *)
InitBind == InitBackend /\ InitEngineIdle /\ InitSessionBinding /\ InitState

NextBind ==
    \/ \E c \in Callers, u \in Users, ip \in Addrs, ua \in Agents :
            nextId = 0 /\ CreateSession(c, u, ip, ua)
    \/ \E c \in Callers, ip \in Addrs, ua \in Agents :
            GetSession(c, ValidToken(1), ip, ua)
    \/ \E c \in Callers : UpdateSession(c)

SpecBind == InitBind /\ [][NextBind]_vars

(* one session fetched as its lifetime runs down *)
InitSlide == InitBackend /\ InitEngineIdle /\ InitSessionSliding /\ InitState

NextSlide ==
    \/ \E c \in Callers, u \in Users : nextId = 0 /\ CreateSession(c, u, None, None)
    \/ \E c \in Callers : GetSession(c, ValidToken(1), None, None)
    \/ \E c \in Callers : GetSessionRenew(c)
    \/ \E c \in Callers : UpdateSession(c)
    \/ TickSess

SpecSlide == InitSlide /\ [][NextSlide]_vars

(* sessions of several users and of none, at one instant *)
NextUsers ==
    \/ \E c \in Callers, u \in UserChoices : CreateSession(c, u, None, None)
    \/ \E c \in Callers, tok \in {ValidToken(i) : i \in SessionIds} :
            GetSession(c, tok, None, None)
    \/ \E uid \in UserIds : DeleteUserSessions(uid)
    \/ \E sid \in SessionIds : DeleteSession(sid)

SpecUsers == InitSess /\ [][NextUsers]_vars

(* one MemoryBackend whose sweeper is started and stopped as its items, set
   without ttl or for one second when their key is free, expire *)
NextSweep ==
    \/ /\ \/ \E k \in Keys, ttl \in {None, Some(1)} :
                k \notin DOMAIN cache /\ Set(k, "v1", ttl)
          \/ Cleanup
          \/ Tick
       /\ UNCHANGED <<engvars, heapvars, mcvars, proxyvars, sweepvars, statevars, sessvars>>
    \/ /\ \/ StartCleanup
          \/ StopCleanup
          \/ \E i \in DOMAIN tasks : SweeperRun(i)
          \/ \E i \in DOMAIN tasks : SweeperExit(i)
       /\ UNCHANGED <<engvars, heapvars, mcvars, proxyvars, statevars, sessvars>>

SpecSweep == InitMem /\ [][NextSweep]_vars

(* keys built and parsed *)
NextKey ==
    /\ \/ \E m \in KeyMethods, h \in KeyHosts, p \in KeyPaths, q \in KeyQueries :
                BuildKey(m, h, p, q)
       \/ ParseBuiltKey
       \/ \E s \in KeyStrings : ParseString(s)
    /\ UNCHANGED <<engvars, heapvars, mcvars, proxyvars, sweepvars, statevars, sessvars>>

SpecKey == InitMem /\ [][NextKey]_vars

(* GET requests to a route under every decoration *)
InitHeader == InitBackend /\ InitEngineAll /\ InitSessionIdle /\ InitState

NextHeader == \E inm \in IfNoneMatch, kw \in KwResponses : Request("GET", inm, kw)

SpecHeader == InitHeader /\ [][NextHeader]_vars

(* the slot set, cleared and read between the requests of a decorated route *)
NextProxy ==
    \/ \E m \in Methods, inm \in IfNoneMatch, kw \in KwResponses : Request(m, inm, kw)
    \/ /\ \/ GetBackend
          \/ \E b \in Slots : SetBackend(b)
       /\ UNCHANGED <<cache, now, exact, engvars, heapvars, mcvars, sweepvars, statevars, sessvars>>

SpecProxy == InitCache /\ [][NextProxy]_vars

(* state tokens under two tasks, each with its own StateManager *)
NextState ==
    \/ \E c \in Callers, m \in Metadatas : CreateState(c, m)
    \/ \E c \in Callers, st \in States : ConsumeState(c, st)
    \/ \E c \in Callers : ConsumeStateDelete(c)
    \/ \E c \in Callers, st \in States : ValidateState(c, st)
    \/ \E c \in Callers, st \in States : GetStateMetadata(c, st)
    \/ \E c \in Callers, st \in States : DeleteState(c, st)
    \/ TickState

SpecState == InitSess /\ [][NextState]_vars

(* two state tokens created by one task, read and consumed by two, the clock
   running *)
NextReaders ==
    \/ \E m \in Metadatas : nextId < 2 /\ CreateState("a", m)
    \/ \E c \in Callers, st \in States : ConsumeState(c, st)
    \/ \E c \in Callers : ConsumeStateDelete(c)
    \/ \E c \in Callers, st \in States : ValidateState(c, st)
    \/ \E c \in Callers, st \in States : GetStateMetadata(c, st)
    \/ TickState

SpecReaders == InitSess /\ [][NextReaders]_vars

(* tokens written and read back, and texts from elsewhere read *)
NextToken ==
    /\ \/ \E x \in WireTokens : TokenRoundTrip(x)
       \/ \E s \in TokenTexts : TokenFromString(s)
    /\ UNCHANGED <<engvars, heapvars, mcvars, proxyvars, sweepvars, statevars, sessvars>>

SpecToken == InitMem /\ [][NextToken]_vars

(* requests through the middleware, with no token, a good one, a tampered
   one and a text that is no token, from several clients, as the one session
   is created, overwritten as expired, invalidated and deleted *)
NextMiddleware ==
    \/ \E u \in Users, bound \in BOOLEAN :
            /\ nextId = 0
            /\ CreateSession("a", u, IF bound THEN Some("ip1") ELSE None,
                              IF bound THEN Some("ua1") ELSE None)
    \/ \E header \in Headers, ip \in Addrs \ {None}, ua \in Agents \ {None} :
            Dispatch(header, ip, ua)
    \/ MutateExpiry("a", -1)
    \/ UpdateSession("a")
    \/ InvalidateSession("a")
    \/ DeleteSession(1)
    \/ TickSess

SpecMiddleware == InitBind /\ [][NextMiddleware]_vars

(* one session, bound to a client or not, fetched by a second task with
   every token from matching and mismatching clients, before it is created
   and as its owner overwrites it as expired and invalidates it *)
NextOrder ==
    \/ \E u \in Users, bound \in BOOLEAN :
            /\ nextId = 0
            /\ CreateSession("a", u, IF bound THEN Some("ip1") ELSE None,
                              IF bound THEN Some("ua1") ELSE None)
    \/ \E tok \in TokensOf({1}), ip \in Addrs \ {None}, ua \in Agents \ {None} :
            (ip = Some("ip1") \/ ua = Some("ua1")) /\ GetSession("b", tok, ip, ua)
    \/ GetSessionRenew("b")
    \/ held["a"] # None /\ ~IsExpired(held["a"][1], now) /\ MutateExpiry("a", -1)
    \/ Stored(cache, 1) # held["a"] /\ UpdateSession("a")
    \/ held["a"] # None /\ held["a"][1].status = "ACTIVE" /\ InvalidateSession("a")
    \/ TickSess

SpecOrder == InitBind /\ [][NextOrder]_vars

(* one MemoryBackend whose sweeper is started and stopped, whose sweeps may
   raise, and whose items expire *)
NextSweepFault ==
    \/ /\ \/ \E k \in Keys : k \notin DOMAIN cache /\ Set(k, "v1", Some(1))
          \/ Tick
       /\ UNCHANGED <<engvars, heapvars, mcvars, proxyvars, sweepvars, statevars, sessvars>>
    \/ /\ \/ StartCleanup
          \/ StopCleanup
          \/ \E i \in DOMAIN tasks : SweeperRun(i)
          \/ \E i \in DOMAIN tasks : SweeperExit(i)
          \/ \E i \in DOMAIN tasks : SweeperFail(i)
       /\ UNCHANGED <<engvars, heapvars, mcvars, proxyvars, statevars, sessvars>>

SpecSweepFault == InitMem /\ [][NextSweepFault]_vars

(* one session fetched by two tasks as its lifetime runs down, invalidated
   and deleted, with no update_session: the only late write is the re-persist
   of a get_session that renews *)
NextInFlight ==
    \/ \E c \in Callers, u \in Users : nextId = 0 /\ CreateSession(c, u, None, None)
    \/ \E c \in Callers, tok \in TokensOf({1}) : GetSession(c, tok, None, None)
    \/ \E c \in Callers : GetSessionRenew(c)
    \/ \E c \in Callers : InvalidateSession(c)
    \/ DeleteSession(1)
    \/ TickSess

SpecInFlight == InitSess /\ [][NextInFlight]_vars

(* one MemoryBackend whose items are set, set again, read, deleted and
   cleared by its callers while its sweeper, started once, wakes, waits for
   the lock and sweeps *)
NextSweepLock ==
    \/ /\ \/ \E k \in Keys, ttl \in {None, Some(1)} : Set(k, "v1", ttl)
          \/ Get(StrKey)
          \/ Delete(StrKey)
          \/ Clear
          \/ Cleanup
          \/ Tick
       /\ UNCHANGED <<engvars, heapvars, mcvars, proxyvars, sweepvars, statevars, sessvars>>
    \/ /\ \/ tasks = <<>> /\ StartCleanup
          \/ StopCleanup
          \/ \E i \in DOMAIN tasks : SweeperWake(i)
          \/ \E i \in DOMAIN tasks : SweeperSweep(i)
          \/ \E i \in DOMAIN tasks : SweeperExit(i)
       /\ UNCHANGED <<engvars, heapvars, mcvars, proxyvars, statevars, sessvars>>

SpecSweepLock == InitMem /\ [][NextSweepLock]_vars

(* a memcached driver: items set with and without ttl, read, cleared by path
   and by pattern, the client's delete failing or not, the clock running *)
NextMemcached ==
    \/ /\ \/ \E k \in McKeys, ttl \in TTLs : MemcachedSet(k, "v1", ttl)
          \/ \E p \in McKeys, ip \in BOOLEAN, fails \in BOOLEAN :
                    MemcachedClearPath(p, ip, fails)
          \/ \E p \in Patterns : MemcachedClearPattern(p)
       /\ UNCHANGED <<engvars, heapvars, proxyvars, sweepvars, statevars, sessvars>>
    \/ /\ \/ \E k \in McKeys : MemcachedGet(k)
          \/ Tick /\ UNCHANGED server
       /\ UNCHANGED <<engvars, heapvars, proxyvars, sweepvars, statevars, sessvars>>

SpecMemcached == InitMem /\ [][NextMemcached]_vars

(* two ETagContent objects stored under two keys, read back and mutated by
   the callers that hold them *)
NextAlias ==
    \/ /\ \/ \E k \in Keys, o \in Objects, ttl \in TTLs : Set(k, o, ttl)
          \/ \E k \in Keys : Get(k)
          \/ \E k \in Keys : Delete(k)
          \/ Tick
       /\ UNCHANGED <<engvars, heapvars, mcvars, proxyvars, sweepvars, statevars, sessvars>>
    \/ /\ \E o \in Objects, content \in Values : MutateObject(o, content)
       /\ UNCHANGED <<engvars, mcvars, proxyvars, sweepvars, statevars, sessvars>>

SpecAlias == InitMem /\ [][NextAlias]_vars

(* the first state token, created by the manager or written behind its back
   in every shape, the second never stored; both read and consumed by two
   tasks, the clock running *)
NextShapes ==
    \/ \E m \in Metadatas : nextId < 1 /\ CreateState("a", m)
    \/ \E what \in Malformed : consumed[1] = 0 /\ PutContent(1, BadContent(what))
    \/ \E content \in GoodContents :
            /\ consumed[1] = 0 /\ content.state = 1 /\ content.metadata = "m1"
            /\ PutContent(1, content)
    \/ \E c \in Callers, st \in States : ConsumeState(c, st)
    \/ \E c \in Callers : ConsumeStateDelete(c)
    \/ \E c \in Callers, st \in States : ValidateState(c, st)
    \/ \E c \in Callers, st \in States : GetStateMetadata(c, st)
    \/ TickState

SpecShapes == InitSess /\ [][NextShapes]_vars

----------------------------------------------------------------------------
(* C1: once set(k, v, t) has completed, every get(k) issued less than t
   seconds later returns v, provided nothing else touched k in between (the
   sweeper may run); a set without ttl makes get(k) return v at every later
   time. *)
C1_SetThenGetWithinTtl ==
    (last.op = "get" /\ exact[last.key] # None) =>
        LET e == exact[last.key][1]
        IN  (e.ttl = None \/ last.at - e.at < e.ttl[1] * TicksPerSec)
                => last.res = Some(e.value)

(* C2: get(k) returns absent whenever the item under k has an expiry <= now,
   swept or not; an item without expiry is returned whatever the time; and a
   get leaves the mapping as it was, the stale item included. *)
C2_GetResult ==
    (last.op = "get" /\ last.at = now /\ last.key \in DOMAIN cache) =>
        LET item == cache[last.key]
        IN  /\ (item.expiry # None /\ item.expiry[1] * TicksPerSec <= now)
                    => last.res = None
            /\ item.expiry = None => last.res = Some(item.value)

C2_StaleGetAbsentAndKept ==
    /\ []C2_GetResult
    /\ [][(last'.op = "get" /\ last' # last) => cache' = cache]_vars

C2_Witness ==
    /\ last.op = "get" /\ last.at = now
    /\ last.key \in DOMAIN cache
    /\ cache[last.key].expiry # None
    /\ cache[last.key].expiry[1] * TicksPerSec <= now
    /\ last.res = None

----------------------------------------------------------------------------
(* The clock does not advance in SpecCache: every request arrives within the
   ttl of the ones before it. *)

(* C3: with ttl set and neither no_store nor no_cache, the second of two
   sequential GET requests with the same key, carrying no If-None-Match, is
   answered 200 with the body, ETag and Cache-Control (max-age=ttl) of the
   first, and the handler is not invoked for it. *)
C3_HotHit ==
    (/\ resp.method = "GET" /\ resp.inm = None /\ resp.kw = None
     /\ Storing(cfg)
     /\ resp.before # None
     /\ resp.before[1].status = "200" /\ resp.before[1].kw = None)
    => /\ ~resp.invoked
       /\ Seen(resp) = resp.before[1]
       /\ \E i \in 1..Len(resp.cc[1]) : resp.cc[1][i] = <<"max-age", cfg.ttl[1]>>

(* C4: a GET whose If-None-Match equals the ETag of the entry cached under
   its key (the ETag of the first answer) is answered 304 with that ETag and
   an empty body, and the handler is not invoked for it. *)
C4_ConditionalGet ==
    (/\ resp.method = "GET" /\ resp.inm # None /\ resp.kw = None
     /\ Storing(cfg)
     /\ resp.before # None
     /\ resp.before[1].status = "200" /\ resp.before[1].kw = None
     /\ resp.before[1].etag = resp.inm)
    => /\ resp.status = "304"
       /\ resp.etag = resp.inm
       /\ resp.body = EmptyBody
       /\ ~resp.invoked

(* C5: after a GET that missed the cache (the handler ran and answered 200),
   the backend holds an entry under the request's key iff ttl is set and
   neither no_store nor no_cache is; the entry is the ETag with the handler's
   body. *)
C5_StoreRule ==
    (resp.method = "GET" /\ resp.kw = None /\ resp.invoked /\ resp.status = "200")
    => /\ Storing(cfg) <=> RequestKey("GET") \in DOMAIN cache
       /\ Storing(cfg) =>
            cache[RequestKey("GET")].value = [etag |-> resp.etag[1], content |-> resp.body]

(* C6: a request with another verb than GET always invokes the handler and
   gets the handler's response as it is (200, its body, no header added, never
   a 304), and the backend is left alone. *)
C6_MethodGate ==
    (resp.method # "none" /\ resp.method # "GET")
    => /\ resp.invoked
       /\ resp.status = "200"
       /\ resp.body = HandlerBody(func, calls)
       /\ resp.etag = None /\ resp.cc = None
       /\ RequestKey(resp.method) \notin DOMAIN cache

----------------------------------------------------------------------------
(* C7: get_session never returns a session for a token whose signature is
   not the HMAC of its session id under the manager's secret: the call fails
   with SessionSecurityError 'Invalid session signature', and the persisted
   sessions (and the objects the callers hold) are as before. *)
BadSignature(tok) == TokenParses(tok) /\ tok[2] # Sign(SecretKey, tok[1])

C7_Fails ==
    (last.op = "get_session" /\ BadSignature(last.token))
    => last.err = "SessionSecurityError: Invalid session signature"

GetAfter(g) ==
    /\ last.op = "get_session"
    /\ last.gone = Some(g)
    /\ last.token = ValidToken(last.token[1])

(* C9 as claimed: after invalidate_session(s) has completed, every later
   get_session with its token fails (SessionInvalidError, or
   SessionNotFoundError once the backend's ttl has removed the entry); none
   returns the session. *)
C9_InvalidationLasts ==
    \A clean \in BOOLEAN :
        GetAfter([kind |-> "invalidated", clean |-> clean])
        => last.err \in {"SessionInvalidError", "SessionNotFoundError"}

C10_NotFound ==
    \A clean \in BOOLEAN :
        GetAfter([kind |-> "deleted", clean |-> clean])
        => last.err = "SessionNotFoundError"

(* C10 as claimed: after delete_session(id) has completed, every get_session
   with that session's token fails with SessionNotFoundError, and the
   deletion leaves every other persisted session as it was. *)
C10_DeletionLasts ==
    /\ []C10_NotFound
    /\ [][(last'.op = "delete_session" /\ last' # last)
            => \A k \in DOMAIN cache \ {SessKey(last'.sid)} :
                    k \in DOMAIN cache' /\ cache'[k] = cache[k]]_vars

(* C8: a state token is consumed successfully at most once, whatever the
   interleaving of consume_state calls and whichever StateManager instance
   they go through: at most one call returns the StateData, every call
   started after a successful consume fails with InvalidStateError, and
   after one validate_state is false and get_state_metadata is none. *)
C8_OneShot ==
    /\ \A st \in States : consumed[st] <= 1
    /\ last.op = "consume_state"
        => /\ last.err = "none" => last.nth = 1
           /\ last.before >= 1 => last.err = "InvalidStateError"
    /\ (last.op = "validate_state" /\ last.before >= 1) => last.res = FALSE
    /\ (last.op = "get_state_metadata" /\ last.before >= 1) => last.res = None

(* C11: create_session returns a session and the token under which
   get_session returns a session with the same session_id and user; what
   update_session is given is what is persisted, so that the next
   get_session returns the changed data with session_id, user and status
   as they were. *)
SameSession(x, y) ==
    /\ x.session_id = y.session_id /\ x.user = y.user
    /\ x.status = y.status /\ x.data = y.data

C11_RoundTrip ==
    /\ last.op \in {"create_session", "update_session"}
        => Stored(cache, last.session.session_id) = Some(last.session)
    /\ last.op = "create_session" => last.token = ValidToken(last.session.session_id)
    /\ (/\ last.op = "get_session"
        /\ last.token = ValidToken(last.token[1])
        /\ last.stored # None
        /\ last.stored[1].status = "ACTIVE")
        => /\ last.err = "none"
           /\ last.ret # None
           /\ SameSession(last.ret[1], last.stored[1])

C11_Witness ==
    /\ last.op = "get_session"
    /\ last.err = "none"
    /\ last.ret[1].data = "d1"
    /\ last.ret[1].session_id = 1
    /\ last.ret[1].user = Some("u1")
    /\ last.ret[1].status = "ACTIVE"

(* C12: regenerate_session_id returns the session under a new session_id and
   a new token; afterwards the backend holds no entry under the old key and
   holds the session, user and data preserved, under the new one, and
   get_session with the old token fails with SessionNotFoundError. *)
C12_OldTokenDead ==
    \A clean \in BOOLEAN :
        GetAfter([kind |-> "regenerated", clean |-> clean])
        => last.err = "SessionNotFoundError"

C12_Regenerated ==
    /\ []C12_OldTokenDead
    /\ [][(last'.op = "regenerate_session_id" /\ last' # last)
            => /\ last'.session.session_id # last'.old
               /\ last'.token = ValidToken(last'.session.session_id)
               /\ last'.token # ValidToken(last'.old)
               /\ last'.session.user = last'.before.user
               /\ last'.session.data = last'.before.data
               /\ Stored(cache', last'.old) = None
               /\ Stored(cache', last'.session.session_id) = Some(last'.session)]_vars

(* a get_session with a correctly signed token that found an item stored
   under its session id *)
GetStored ==
    /\ last.op = "get_session"
    /\ last.token = ValidToken(last.token[1])
    /\ last.stored # None

(* C13 as claimed: when the persisted session of a valid token has
   expires_at <= now, get_session fails with SessionExpiredError. *)
C13_ExpiredError ==
    (GetStored /\ IsExpired(last.stored[1], last.at))
    => (last.err = "SessionExpiredError" /\ last.ret = None)

(* C13 amended: when the backend still returns the persisted session of a
   valid token, its status is ACTIVE and its expires_at <= now, get_session
   fails with SessionExpiredError and returns no session; and update_session
   of a session whose expires_at is in the past leaves it readable at that
   instant (backend ttl max(1, expires_at - now) = 1), so that a get_session
   then fails in this way rather than returning it. *)
C13_ExpiredWhileReadable ==
    /\ (/\ GetStored /\ last.found
        /\ last.stored[1].status = "ACTIVE"
        /\ IsExpired(last.stored[1], last.at))
        => (last.err = "SessionExpiredError" /\ last.ret = None)
    /\ (last.op = "update_session" /\ last.at = now)
        => MemGet(cache, SessKey(last.session.session_id), now) = Some(last.session)

C13_Witness ==
    /\ GetStored /\ last.found
    /\ last.stored[1].status = "ACTIVE"
    /\ IsExpired(last.stored[1], last.at)
    /\ last.err = "SessionExpiredError"

(* C14: with ip_binding enabled, get_session on a stored ACTIVE session
   bound to an address fails with SessionSecurityError 'IP address mismatch',
   returning nothing, when the presented ip differs or is absent, and passes
   the check when it is equal or the session is bound to none; with
   ip_binding disabled the presented ip decides nothing.  The same for
   user_agent_binding and 'User-Agent mismatch', once the ip check passed. *)
C14_Binding ==
    (GetStored /\ last.stored[1].status = "ACTIVE")
    => LET x == last.stored[1]
           ipok == ~scfg.ip_binding \/ x.ip_address = None \/ x.ip_address = last.ip
           uaok == ~scfg.user_agent_binding \/ x.user_agent = None
                   \/ x.user_agent = last.ua
       IN  /\ ~ipok => (last.err = "SessionSecurityError: IP address mismatch"
                        /\ last.ret = None)
           /\ (ipok /\ ~uaok) => (last.err = "SessionSecurityError: User-Agent mismatch"
                                  /\ last.ret = None)
           /\ (ipok /\ uaok) => (last.err = "none" /\ last.ret = Some(x))

C14_Witness ==
    /\ GetStored
    /\ scfg.ip_binding
    /\ last.stored[1].ip_address = Some("ip1")
    /\ last.ip = Some("ip2")
    /\ last.err = "SessionSecurityError: IP address mismatch"

(* C15: a successful get_session renews the session (expires_at := now +
   session_ttl, last_accessed := now, re-persisted) if and only if
   sliding_expiration is enabled and expires_at - now is strictly less than
   (1 - sliding_threshold) * session_ttl; otherwise it returns expires_at as
   stored and writes nothing. *)
Due(r) ==
    /\ scfg.sliding_expiration
    /\ Quarters * (r.stored[1].expires_at[1] - r.at)
            < (Quarters - scfg.sliding_threshold) * SessionTtl * TicksPerSec

C15_Returned ==
    (last.op = "get_session" /\ last.err = "none")
    => IF Due(last)
       THEN /\ last.ret[1].expires_at = Some(last.at + SessionTtl * TicksPerSec)
            /\ last.ret[1].last_accessed = last.at
       ELSE last.ret = last.stored

C15_Sliding ==
    /\ []C15_Returned
    /\ [][(last'.op = "get_session" /\ last'.err = "none" /\ last' # last)
            => IF Due(last')
               THEN Stored(cache', last'.token[1]) = last'.ret
               ELSE cache' = cache]_vars

C15_Witness ==
    /\ last.op = "get_session" /\ last.err = "none"
    /\ Due(last)
    /\ scfg.sliding_threshold = 1
    /\ Stored(cache, 1) = last.ret
    /\ last.ret[1].expires_at # last.stored[1].expires_at

(* C16: delete_user_sessions(user_id) deletes exactly the persisted sessions
   whose user.user_id is user_id and returns their number; the sessions of
   other users and those without a user stay as they were. *)
SessionsOf(c, uid) ==
    {sid \in SessionIds : Stored(c, sid) # None /\ Stored(c, sid)[1].user = Some(uid)}

C16_DeleteUserSessions ==
    [][(last'.op = "delete_user_sessions" /\ last' # last)
        => LET theirs == SessionsOf(cache, last'.user_id)
           IN  /\ last'.count = Cardinality(theirs)
               /\ \A sid \in theirs : Stored(cache', sid) = None
               /\ \A sid \in SessionIds \ theirs :
                        Stored(cache', sid) = Stored(cache, sid)]_vars

(* C17: after delete(k), get(k) returns absent until the next set on k,
   whatever was stored; delete of a key that is not stored changes nothing;
   delete(k) leaves the item of every other key as it was. *)
SameItem(k) ==
    /\ (k \in DOMAIN cache) = (k \in DOMAIN cache')
    /\ k \in DOMAIN cache => cache'[k] = cache[k]

OnlySetStores(k) ==
    (k \notin DOMAIN cache /\ k \in DOMAIN cache')
    => \E v \in Values, ttl \in TTLs : Set(k, v, ttl)

C17_AbsentGet ==
    (last.op = "get" /\ last.key \notin DOMAIN cache) => last.res = None

C17_Delete ==
    /\ []C17_AbsentGet
    /\ [][\A k \in Keys :
            /\ Delete(k) => /\ k \notin DOMAIN cache'
                            /\ \A j \in Keys \ {k} : SameItem(j)
                            /\ k \notin DOMAIN cache => cache' = cache
            /\ OnlySetStores(k)]_vars

C17_Witness ==
    /\ last.op = "delete" /\ last.had
    /\ last.key \notin DOMAIN cache
    /\ \E j \in Keys \ {last.key} : j \in DOMAIN cache /\ cache[j].expiry = None

(* C18: after clear() the mapping is empty, so that get(k) returns absent
   for every key, stored with or without expiry, until a later set; clear on
   an empty backend changes nothing. *)
C18_EmptyGet ==
    (last.op = "get" /\ DOMAIN cache = {}) => last.res = None

C18_Clear ==
    /\ []C18_EmptyGet
    /\ [][/\ Clear => (DOMAIN cache' = {} /\ (DOMAIN cache = {} => cache' = cache))
          /\ \A k \in Keys : OnlySetStores(k)]_vars

C18_Witness ==
    /\ last.op = "clear" /\ last.had = Cardinality(Keys)
    /\ DOMAIN cache = {}

(* a stored key of the form METHOD|||host|||path|||query *)
IsCacheKey(k) == Len(KeyFields(k)) = 4

Removed == DOMAIN cache \ DOMAIN cache'

Kept(k) == k \in DOMAIN cache' /\ cache'[k] = cache[k]

(* C19: clear_path(path, include_params) removes exactly the stored keys
   METHOD|||host|||path|||query whose path field equals the argument and,
   unless include_params, whose query field is empty, whatever the method
   and host; it returns the number of keys removed and leaves every other
   key's item as it was. *)
C19_ClearPath ==
    [][\A path \in Paths, include_params \in BOOLEAN :
        ClearPath(path, include_params)
        => /\ \A k \in DOMAIN cache :
                IsCacheKey(k)
                => IF /\ KeyFields(k)[3] = path
                      /\ (include_params \/ KeyFields(k)[4] = <<>>)
                   THEN k \in Removed
                   ELSE Kept(k)
           /\ last'.res = Cardinality(Removed)
           /\ \A k \in DOMAIN cache \ Removed : Kept(k)]_vars

(* C20: clear_pattern(glob) removes exactly the stored keys
   METHOD|||host|||path|||query whose path field matches the shell-style
   glob, whatever the method, host and query; it returns the number of keys
   removed and leaves every other key's item as it was. *)
C20_ClearPattern ==
    [][\A pattern \in Patterns :
        ClearPattern(pattern)
        => /\ \A k \in DOMAIN cache :
                IsCacheKey(k)
                => IF FnMatch(KeyFields(k)[3], pattern)
                   THEN k \in Removed
                   ELSE Kept(k)
           /\ last'.res = Cardinality(Removed)
           /\ \A k \in DOMAIN cache \ Removed : Kept(k)]_vars

----------------------------------------------------------------------------
(* C21: each run of cleanup(), awaited by a caller or by the sweeper task,
   removes exactly the items whose expiry is not none and <= now: when it
   returns no such item is in the mapping, and every item whose expiry is none
   or > now is still stored with the value and the expiry it had. *)
Past(item, t) == item.expiry # None /\ item.expiry[1] * TicksPerSec <= t

C21_Cleanup ==
    [][(Cleanup \/ \E i \in DOMAIN tasks : SweeperRun(i)) =>
        /\ \A k \in DOMAIN cache' : ~Past(cache'[k], now)
        /\ \A k \in DOMAIN cache :
                IF Past(cache[k], now)
                THEN k \notin DOMAIN cache'
                ELSE k \in DOMAIN cache' /\ cache'[k] = cache[k]
        /\ DOMAIN cache' \subseteq DOMAIN cache]_vars

(* the sweeper task has just swept two items: one is gone, the other, which
   expires later, is still there *)
C21_Witness ==
    /\ last.op = "cleanup" /\ last.by # None /\ last.had = Keys
    /\ \E k \in Keys :
            /\ DOMAIN cache = {k}
            /\ cache[k].expiry # None /\ cache[k].expiry[1] * TicksPerSec > now

----------------------------------------------------------------------------
(* C22: for every sequence of start_cleanup and stop_cleanup calls on one
   MemoryBackend, at most one sweeper task is alive (created and not yet
   finished) at any time, and start_cleanup while a sweeper is running creates
   no new task and keeps the same task handle. *)
Running(ts) == {i \in DOMAIN ts : ts[i].state = "sleeping"}

StartWhileRunning == StartCleanup /\ cleanup_task # None

----------------------------------------------------------------------------
(* C23: stop_cleanup cancels the sweeper and waits for it: when stop_cleanup
   returns, the sweeper task has finished (no error escapes) and it performs
   no further removal from the mapping; stop_cleanup when no sweeper is
   running is a no-op that does not raise and leaves the handle unset. *)
StopIdle ==
    (StopCleanup /\ cleanup_task = None) =>
        (UNCHANGED <<cleanup_task, tasks, cache>> /\ ~last'.raised)

(* a task that is not running sweeps no more (a sweep changes the mapping or
   at least the task's next wake-up) and does not come back *)
NoFurtherSweep ==
    \A i \in DOMAIN tasks :
        tasks[i].state # "sleeping" =>
            /\ ~SweeperRun(i)
            /\ tasks'[i].wake \in {tasks[i].wake, 0}
            /\ tasks'[i].state \in {tasks[i].state, "done"}

----------------------------------------------------------------------------
(* C24: when the slot is unset at the first use of a @cache-wrapped handler,
   the engine installs an in-process memory backend into the slot and serves
   the request without raising; from then on the proxy's get returns that
   backend. *)
AnyRequest ==
    \E m \in Methods, inm \in IfNoneMatch, kw \in KwResponses : Request(m, inm, kw)

C24_DefaultInstalled ==
    [][(AnyRequest /\ default_backend = None) =>
        /\ default_backend' = Some("memory")
        /\ ProxyGet(default_backend').err = "none"]_vars

----------------------------------------------------------------------------
(* C25: the proxy's get fails with BackendNotFoundError if and only if the
   slot is unset (never set, or last set to none); otherwise it returns
   exactly the backend passed to the most recent set; get never changes the
   slot, and the slot changes only through set. *)
C25_Slot ==
    [][/\ default_backend' = assigned'
       /\ GetBackend =>
            /\ UNCHANGED default_backend
            /\ (last'.err = "BackendNotFoundError") <=> (assigned = None)
            /\ (last'.err # "BackendNotFoundError") =>
                    (last'.err = "none" /\ last'.res = assigned)
       /\ (default_backend' # default_backend) => \E b \in Slots : SetBackend(b)]_vars

(* after requests were served and the slot was set, get returns the backend
   that was set last *)
C25_Witness ==
    /\ last.op = "get_backend" /\ last.err = "none"
    /\ last.res = Some("redis") /\ assigned = Some("redis")
    /\ calls > 0

----------------------------------------------------------------------------
(* C26: when no_store is true the response's Cache-Control header is exactly
   'no-store', for every combination of the other options. *)
Answered == resp # NoRequest

OnlyNoStore == Some(<< <<"no-store">> >>)

C26_NoStoreAlways == (Answered /\ cfg.no_store) => resp.cc = OnlyNoStore

(* C26, amended: when no_store is true the response's Cache-Control header is
   exactly 'no-store', for every combination of the other options, unless the
   request's If-None-Match equals the response's ETag: the 304 response then
   carries the ETag and no Cache-Control header. *)
C26_NoStoreExclusive ==
    (Answered /\ cfg.no_store) =>
        IF resp.inm # None /\ resp.inm = resp.etag
        THEN resp.status = "304" /\ resp.cc = None
        ELSE resp.status = "200" /\ resp.cc = OnlyNoStore

(* a 200 answer with no-store alone under a decoration that sets every other
   option, stale without stale_ttl included *)
C26_Witness ==
    /\ Answered /\ resp.status = "200" /\ resp.cc = OnlyNoStore
    /\ cfg.no_store /\ cfg.no_cache /\ cfg.public /\ cfg.private
    /\ cfg.immutable /\ cfg.must_revalidate
    /\ cfg.ttl # None /\ cfg.stale # None /\ cfg.stale_ttl = None

----------------------------------------------------------------------------
(* C27: without no_store, the emitted Cache-Control header is the list of the
   reference rule: under no_cache, 'no-cache' followed by 'must-revalidate'
   iff must_revalidate; otherwise, in this order, 'public' if public else
   'private' if private, 'max-age=<ttl>' iff ttl is set, 'must-revalidate' iff
   must_revalidate, 'stale-while-revalidate=<stale_ttl>' if stale is
   revalidate or 'stale-if-error=<stale_ttl>' if stale is error, 'immutable'
   iff immutable; nothing else is emitted.  Every 200 answer carries it. *)
When(b, item) == IF b THEN <<item>> ELSE <<>>

Reference(c) ==
    IF c.no_cache
    THEN <<<<"no-cache">>>> \o When(c.must_revalidate, <<"must-revalidate">>)
    ELSE When(c.public, <<"public">>)
         \o When(~c.public /\ c.private, <<"private">>)
         \o (IF c.ttl # None THEN <<<<"max-age", c.ttl[1]>>>> ELSE <<>>)
         \o When(c.must_revalidate, <<"must-revalidate">>)
         \o (IF c.stale = Some("revalidate")
             THEN <<<<"stale-while-revalidate", c.stale_ttl[1]>>>> ELSE <<>>)
         \o (IF c.stale = Some("error")
             THEN <<<<"stale-if-error", c.stale_ttl[1]>>>> ELSE <<>>)
         \o When(c.immutable, <<"immutable">>)

C27_Assembly ==
    (Answered /\ ~cfg.no_store) =>
        /\ resp.cc # None => resp.cc = Some(Reference(cfg))
        /\ resp.status = "200" => resp.cc # None

(* a header with a directive of every kind, public winning over private *)
C27_Witness ==
    /\ Answered /\ cfg.public /\ cfg.private
    /\ resp.cc = Some(<< <<"public">>, <<"max-age", 1>>, <<"must-revalidate">>,
                         <<"stale-if-error", 1>>, <<"immutable">> >>)

----------------------------------------------------------------------------
(* C28: under every decoration in which stale is set and stale_ttl is none,
   the engine fails with CacheXError at the first call, whatever the other
   options (no_store and no_cache included) and whether or not the request's
   If-None-Match matches; no response carrying a stale directive without a
   value is ever returned. *)
StaleDirectives == {"stale-while-revalidate", "stale-if-error"}

C28_StaleNeedsTtl ==
    /\ (Answered /\ cfg.stale # None /\ cfg.stale_ttl = None) =>
            resp.status = "CacheXError"
    /\ (Answered /\ resp.cc # None) =>
            \A i \in DOMAIN resp.cc[1] :
                resp.cc[1][i][1] \in StaleDirectives => Len(resp.cc[1][i]) = 2

----------------------------------------------------------------------------
(* C29: for every method, host, path and query string, parsing the key
   produced by the default builder yields exactly those four fields (a
   missing host as 'unknown'), hosts containing ':' and an empty query
   included; a string that does not split into four fields parses to four
   empty strings. *)
HostField(h) == IF h = None THEN StrUnknown ELSE h[1]

RoundTrip ==
    last.key = <<last.method, HostField(last.host), last.path, last.query>>

(* how many times '|||' occurs in s, counted from the left without overlap *)
RECURSIVE Bars(_)
Bars(s) ==
    IF Len(s) < 3 THEN 0
    ELSE IF SubSeq(s, 1, 3) = <<"|", "|", "|">> THEN 1 + Bars(SubSeq(s, 4, Len(s)))
    ELSE Bars(Tail(s))

Sentinel ==
    (last.op = "parse_cache_key" /\ Bars(last.string) < 3) => last.res = EmptyFields

C29_RoundTripAll ==
    /\ last.op = "parse_built_key" => RoundTrip
    /\ Sentinel

(* C29, amended: for every method, host and path that neither contain '|||'
   nor end with '|', and every query string, parsing the key produced by the
   default builder yields exactly those four fields (a missing host as
   'unknown'), hosts containing ':' and an empty query included; a string
   that does not split into four fields parses to four empty strings. *)
Plain(field) ==
    /\ Bars(field) = 0
    /\ field # <<>> => field[Len(field)] # "|"

C29_RoundTripPlain ==
    /\ (/\ last.op = "parse_built_key"
        /\ Plain(last.method) /\ Plain(HostField(last.host)) /\ Plain(last.path))
            => RoundTrip
    /\ Sentinel

(* the key of a request to an IPv6 host with a port, with an empty query,
   parsed back into its fields *)
C29_Witness ==
    /\ last.op = "parse_built_key"
    /\ last.host = Some(<<"[", ":", ":", "1", "]", ":", "8">>)
    /\ last.query = <<>>
    /\ RoundTrip

----------------------------------------------------------------------------
(* C30: validate_state and get_state_metadata never change the stored state:
   whatever calls of them came before, on a state that is neither consumed
   nor expired validate_state is true, get_state_metadata is the metadata
   passed to create_state, and consume_state succeeds and returns that
   metadata; consuming one state leaves every other state valid.  A state is
   expired once its backend entry or its expires_at has run out. *)
StateReader ==
    \E c \in Callers, st \in States : ValidateState(c, st) \/ GetStateMetadata(c, st)

Unexpired(st) ==
    /\ now < IntExpiry(made[st][1].at, StateTtl) * TicksPerSec
    /\ now <= made[st][1].at + StateTtl * TicksPerSec

Usable(st) == made[st] # None /\ consumed[st] = 0 /\ Unexpired(st)

----------------------------------------------------------------------------
(* C31: whatever is stored under a state's key that is no usable state
   (nothing, a content that is no StateData, a StateData whose expires_at has
   passed), validate_state returns false and get_state_metadata returns none,
   and consume_state ends at once with InvalidStateError 'Invalid or expired
   state' when nothing is stored, StateDataError with one of its three
   messages when the content is malformed, StateExpiredError when the
   StateData has expired. *)
Held(st) ==
    /\ StateKey(st) \in DOMAIN cache
    /\ \/ cache[StateKey(st)].expiry = None
       \/ now < cache[StateKey(st)].expiry[1] * TicksPerSec

Content(st) == cache[StateKey(st)].value

Broken(st) == Held(st) /\ "malformed" \in DOMAIN Content(st)

Lapsed(st) == Held(st) /\ ~Broken(st) /\ now > Content(st).expires_at

DataMessages ==
    {"Failed to parse state data", "Invalid state data structure",
     "Unexpected state data format"}

C31_Errors ==
    [][\A c \in Callers, st \in States :
        (~Held(st) \/ Broken(st) \/ Lapsed(st)) =>
            /\ ValidateState(c, st) => last'.res = FALSE
            /\ GetStateMetadata(c, st) => last'.res = None
            /\ ConsumeState(c, st) =>
                /\ pend'[c] = None
                /\ last'.op = "consume_state" /\ last'.state = st
                /\ ~Held(st) => /\ last'.err = "InvalidStateError"
                                /\ last'.msg = "Invalid or expired state"
                /\ Broken(st) => /\ last'.err = "StateDataError"
                                 /\ last'.msg \in DataMessages
                /\ Lapsed(st) => last'.err = "StateExpiredError"]_vars

(* a consume_state has just failed on a content whose expires_at is no date,
   and the content is still stored *)
C31_Witness ==
    /\ last.op = "consume_state" /\ last.err = "StateDataError"
    /\ last.msg = "Invalid state data structure"
    /\ Broken(last.state)

----------------------------------------------------------------------------
(* C32: assigning to an object that get returned, or that was passed to set,
   changes nothing a later get returns: across such an assignment every key
   reads as before. *)
C32_DefensiveCopies ==
    [][\A o \in Objects, content \in Values :
        MutateObject(o, content) =>
            \A k \in Keys : Read(cache', heap', k, now') = Read(cache, heap, k, now)]_vars

----------------------------------------------------------------------------
(* C33: on the memcached driver clear_pattern, and clear_path with
   include_params, return 0 with a warning and leave the store as it is, so
   every stored key reads as before; clear_path without include_params
   touches no key but the path itself and returns 1 when that key was stored
   and the delete went through, 0 otherwise. *)
McReads(s, t) == [k \in McKeys |-> McGet(s, k, t)]

C33_NoEnumeration ==
    [][/\ \A pat \in Patterns :
            MemcachedClearPattern(pat) =>
                /\ last'.res = 0 /\ last'.warned
                /\ McReads(server', now') = McReads(server, now)
       /\ \A p \in McKeys, fails \in BOOLEAN :
            /\ MemcachedClearPath(p, TRUE, fails) =>
                /\ last'.res = 0 /\ last'.warned
                /\ McReads(server', now') = McReads(server, now)
            /\ MemcachedClearPath(p, FALSE, fails) =>
                /\ \A k \in McKeys \ {p} : McGet(server', k, now') = McGet(server, k, now)
                /\ last'.res = IF McGet(server, p, now) # None /\ ~fails THEN 1 ELSE 0
                /\ last'.res = 1 => McGet(server', p, now') = None]_vars

(* a clear_path with include_params has just returned 0 although the path and
   a key under it are both stored *)
C33_Witness ==
    /\ last.op = "mc_clear_path" /\ last.include_params /\ last.res = 0
    /\ last.path = StrA
    /\ McGet(server, StrA, now) # None /\ McGet(server, StrAx, now) # None

----------------------------------------------------------------------------
(* C34: a token written by to_string and read by from_string comes back with
   the same session_id, signature and issued_at; from_string fails exactly
   when the text has other than two or three fields between its dots, or has
   three and the third reads as no timestamp. *)
Arity(s) == Cardinality({i \in 1..Len(s) : s[i] = "."}) + 1

AfterLastDot(s) ==
    LET dots == {i \in 1..Len(s) : s[i] = "."}
        i == IF dots = {} THEN 0 ELSE CHOOSE j \in dots : \A k \in dots : k <= j
    IN  SubSeq(s, i + 1, Len(s))

NoTimestamp(f) == f = <<>> \/ \E i \in 1..Len(f) : f[i] \notin {"0", "1", "2", "3"}

CameBack ==
    last.op = "round_trip" => (last.res.err = "none" /\ last.res.token = Some(last.token))

----------------------------------------------------------------------------
(* C35: every request through the session middleware reaches the handler
   exactly once and is answered with the handler's response; the session is
   attached when get_session succeeds (the token is well signed, its session
   stored, readable, ACTIVE, unexpired and bound to this client), and none is
   attached otherwise, whatever the error. *)
Loadable(header, ip, ua) ==
    /\ header # None
    /\ header[1] = ValidToken(1)
    /\ SessKey(1) \in DOMAIN cache
    /\ LET item == cache[SessKey(1)] IN
        /\ item.expiry = None \/ now < item.expiry[1] * TicksPerSec
        /\ item.value.status = "ACTIVE"
        /\ item.value.expires_at = None \/ now < item.value.expires_at[1]
        /\ scfg.ip_binding =>
                (item.value.ip_address = None \/ item.value.ip_address = ip)
        /\ scfg.user_agent_binding =>
                (item.value.user_agent = None \/ item.value.user_agent = ua)

C35_Middleware ==
    [][(last'.op = "dispatch" /\ Dispatch(last'.header, last'.ip, last'.ua)) =>
            /\ last'.called = 1 /\ last'.response = "call_next"
            /\ Loadable(last'.header, last'.ip, last'.ua) =>
                    /\ last'.attached # None
                    /\ last'.attached[1].session_id = 1
                    /\ last'.attached[1].status = "ACTIVE"
            /\ ~Loadable(last'.header, last'.ip, last'.ua) => last'.attached = None]_vars

(* a request with the token of an expired session has been answered by the
   handler, with no session attached *)
C35_Witness ==
    /\ last.op = "dispatch" /\ last.err = "SessionExpiredError"
    /\ last.attached = None /\ last.called = 1 /\ last.response = "call_next"

----------------------------------------------------------------------------
(* C36: get_session checks the token's form, its signature, the backend, the
   status, the expiry, the address and the agent, in this order, and fails
   with the error of the first check that fails: a well signed token of a
   session that is not stored fails as not found, an invalidated session
   that has also expired fails as invalid, an expired session presented from
   another address fails as expired.  The renewal is started only by a call
   that passed every check, and a failing call writes nothing. *)
FirstFailure(tok, ip, ua) ==
    IF Len(tok) # 3 THEN "SessionTokenError"
    ELSE IF tok[2] # Sign(SecretKey, tok[1])
    THEN "SessionSecurityError: Invalid session signature"
    ELSE IF \/ SessKey(tok[1]) \notin DOMAIN cache
            \/ /\ cache[SessKey(tok[1])].expiry # None
               /\ now >= cache[SessKey(tok[1])].expiry[1] * TicksPerSec
    THEN "SessionNotFoundError"
    ELSE LET sess == cache[SessKey(tok[1])].value IN
         IF sess.status # "ACTIVE" THEN "SessionInvalidError"
         ELSE IF sess.expires_at # None /\ sess.expires_at[1] <= now
         THEN "SessionExpiredError"
         ELSE IF scfg.ip_binding /\ sess.ip_address # None /\ sess.ip_address # ip
         THEN "SessionSecurityError: IP address mismatch"
         ELSE IF scfg.user_agent_binding /\ sess.user_agent # None
                 /\ sess.user_agent # ua
         THEN "SessionSecurityError: User-Agent mismatch"
         ELSE "none"

----------------------------------------------------------------------------
(* C37: a sweep that raises anything but a cancellation does not end the
   sweeper: the task of a sweeper that was started and not stopped is still
   there to wake again, so expired items keep being removed. *)
C37_SweeperSurvives ==
    [][\A i \in DOMAIN tasks :
        SweeperFail(i) =>
            (cleanup_task = Some(i) => tasks'[i].state = "sleeping")]_vars

----------------------------------------------------------------------------
(* C38: a GET request that is not answered from the cache has the handler
   invoked once for it, a Response object among its arguments or not, and the
   ETag and the body of the answer are those of that invocation's result. *)
C38_MissInvokes ==
    resp.method = "GET" =>
        /\ resp.invoked
        /\ resp.status # "CacheXError" =>
                resp.etag = Some(ETagOf(HandlerBody(func, calls)))
        /\ resp.status = "200" => resp.body = HandlerBody(func, calls)

----------------------------------------------------------------------------
(* C39: once invalidate_session or delete_session has completed for a
   session, no write of a task that loaded it earlier (the re-persist of a
   get_session caught between its load and its renewal, the update_session
   of a holder of an ACTIVE copy) brings it back: the entry of an invalidated
   session is never ACTIVE, a deleted session has no entry, and no
   get_session started afterwards returns the session. *)
C39_Durable ==
    /\ \A sid \in SessionIds :
        /\ (gone[sid].kind = "invalidated" /\ SessKey(sid) \in DOMAIN cache)
                => cache[SessKey(sid)].value.status # "ACTIVE"
        /\ gone[sid].kind = "deleted" => SessKey(sid) \notin DOMAIN cache
    /\ \A kind \in {"invalidated", "deleted"}, clean \in BOOLEAN :
        GetAfter([kind |-> kind, clean |-> clean]) => last.err # "none"

----------------------------------------------------------------------------
(* C40: whatever set, get, delete and clear calls run between a sweeper's
   waking and its getting the lock, a sweep removes only items that are
   expired at the moment it removes them and leaves every other item as it
   is; a key that was expired when the sweep began to wait and has since been
   set again, with a fresh ttl or with none, keeps its new item. *)
StillGood(item, t) == item.expiry = None \/ item.expiry[1] * TicksPerSec > t

C40_SweepAtomic ==
    [][(Cleanup \/ \E i \in DOMAIN tasks : SweeperSweep(i)) =>
        /\ \A k \in DOMAIN cache :
            StillGood(cache[k], now) => (k \in DOMAIN cache' /\ cache'[k] = cache[k])
        /\ \A k \in DOMAIN cache' : k \in DOMAIN cache /\ cache'[k] = cache[k]]_vars

(* a sweep that had waited for the lock has run, and a key that was expired
   when it began to wait is stored, one set again without ttl among them *)
C40_Witness ==
    /\ last.op = "cleanup" /\ last.by # None
    /\ \E k \in last.waited : k \in DOMAIN cache /\ cache[k].expiry # None
    /\ \E k \in last.waited : k \in DOMAIN cache /\ cache[k].expiry = None

====
